---- MODULE Spec2Model ----
(***************************************************************************)
(* Gate-evaluation engines of CerebralOS:                                  *)
(*   - cerebralos/ntds_logic/engine.py       evaluate_event                *)
(*   - cerebralos/protocol_engine/engine.py  evaluate_protocol             *)
(*                                                                         *)
(* An evidence text is abstracted to the ordered list of regex occurrences *)
(* it contains; each occurrence records which regex produced it and the    *)
(* verdicts of the negation and historical-context classifiers on it.      *)
(* A timestamp string is abstracted to its format and its instant.         *)
(***************************************************************************)
EXTENDS Integers, Sequences, FiniteSets, TLC

VARIABLES
    \* evaluate_event: arguments, result under construction, position
    event_rules, contract, patient, r, pc, xi, gi, run, first,
    \* evaluate_protocol: arguments, result under construction, position
    protocol_rules, protocol_contract, protocol_patient, pr, ppc, ri, prun, pfirst,
    \* evaluate_patient: the loaded rulesets, the two result lists, position
    protocols, ntds_rulesets, results, ntds_results, bpc, bk,
    \* one call of a matcher or classifier: arguments, returned values, position
    args, ret, fpc

event_vars == <<event_rules, contract, patient, r, pc, xi, gi, run, first>>

protocol_vars ==
    <<protocol_rules, protocol_contract, protocol_patient, pr, ppc, ri, prun, pfirst>>

batch_vars == <<protocols, ntds_rulesets, results, ntds_results, bpc, bk>>

call_vars == <<args, ret, fpc>>

vars == <<event_vars, protocol_vars, batch_vars, call_vars>>

----------------------------------------------------------------------------
(* Bounds of the explored input space *)

MaxGates == 2
MaxExclusions == 1
MaxEvidence == 2
MaxRequirements == 2
BatchEvidence == 1

----------------------------------------------------------------------------
(* Generic helpers *)

RECURSIVE Concat(_)
Concat(ss) == IF ss = <<>> THEN <<>> ELSE Head(ss) \o Concat(Tail(ss))

\* Python slice s[:n] for n >= 0
Take(s, n) == SubSeq(s, 1, IF n < Len(s) THEN n ELSE Len(s))

\* "hits.append(e); if len(hits) >= max_hits: break" over the accepted
\* blocks: the test follows the append, so the first hit is always kept
LoopTake(s, max_hits) == Take(s, IF max_hits < 1 THEN 1 ELSE max_hits)

\* the sequences of lo..hi distinct elements of S
SeqsUpTo(S, lo, hi) ==
    {s \in UNION {[1..n -> S] : n \in lo..hi} :
        \A i, j \in 1..Len(s) : i # j => s[i] # s[j]}

\* the records of at most hi blocks taken from rec in rec's order
Excerpts(rec, hi) ==
    LET picks == {ix \in UNION {[1..n -> 1..Len(rec)] : n \in 0..hi} :
                     \A i \in 1..(Len(ix) - 1) : ix[i] < ix[i + 1]}
    IN  {[i \in 1..Len(ix) |-> rec[ix[i]]] : ix \in picks}

\* str.upper() on the outcome tokens that occur in rule files
Upper(s) ==
    CASE s = "no" -> "NO"
      [] s = "yes" -> "YES"
      [] s = "excluded" -> "EXCLUDED"
      [] OTHER -> s

----------------------------------------------------------------------------
(* ntds_logic/model.py *)

Outcome == {"YES", "NO", "EXCLUDED", "UNABLE_TO_DETERMINE", "NOT_EVALUATED"}

NoHardStop == [present |-> FALSE, rule_id |-> "", reason |-> "", evidence |-> <<>>]

HardStop(rule_id, reason, evidence) ==
    [present |-> TRUE, rule_id |-> rule_id, reason |-> reason, evidence |-> evidence]

GateResult(gate, passed, reason, evidence) ==
    [gate |-> gate, passed |-> passed, reason |-> reason, evidence |-> evidence]

\* EventResult(event_id, canonical_name, ntds_year, outcome=UNABLE_TO_DETERMINE)
EventResult ==
    [outcome |-> "UNABLE_TO_DETERMINE", hard_stop |-> NoHardStop,
     gate_trace |-> <<>>, warnings |-> <<>>]

----------------------------------------------------------------------------
(* Timestamps: ntds_logic/engine.py parse_ts, is_after *)

NoTs == [fmt |-> "none", t |-> 0]
BadTs == [fmt |-> "bad", t |-> 0]
IsoTs(t) == [fmt |-> "iso", t |-> t]
IsoZTs(t) == [fmt |-> "isoZ", t |-> t]

NoDt == [ok |-> FALSE, aware |-> FALSE, t |-> 0]

\* only the "%Y-%m-%dT%H:%M:%SZ" format yields a timezone-aware datetime
parse_ts(ts) ==
    CASE ts.fmt = "isoZ" -> [ok |-> TRUE, aware |-> TRUE, t |-> ts.t]
      [] ts.fmt = "iso" -> [ok |-> TRUE, aware |-> FALSE, t |-> ts.t]
      [] OTHER -> NoDt

\* Optional[bool] as "none" | "true" | "false"
is_after(arrival, ev_ts) ==
    LET a == parse_ts(arrival)
        b == parse_ts(ev_ts)
    IN  IF ~a.ok \/ ~b.ok THEN "none"
        ELSE IF a.aware # b.aware THEN "none"
        ELSE IF b.t > a.t THEN "true" ELSE "false"

----------------------------------------------------------------------------
(* Evidence matching: ntds_logic/engine.py *)

\* patient.facts["query_patterns"].get(query_key, []) ; a missing key or an
\* empty list compiles to no pattern
patterns_for_key(p, query_key) ==
    IF query_key \in DOMAIN p.facts.query_patterns
    THEN p.facts.query_patterns[query_key]
    ELSE <<>>

\* re.Pattern.search(txt) is not None
Search(regex, txt) == \E i \in 1..Len(txt) : txt[i].re = regex

AnySearch(compiled, txt) == \E k \in 1..Len(compiled) : Search(compiled[k], txt)

match_evidence(p, query_key, allowed_sources, max_hits) ==
    LET compiled == patterns_for_key(p, query_key)
        allowed_set == {allowed_sources[k] : k \in 1..Len(allowed_sources)}
        Hit(e) == /\ (allowed_set = {} \/ e.source_type \in allowed_set)
                  /\ AnySearch(compiled, e.text)
    IN  IF compiled = <<>> THEN <<>>
        ELSE LoopTake(SelectSeq(p.evidence, Hit), max_hits)

line_matches_any(p, text, query_key) ==
    LET compiled == patterns_for_key(p, query_key)
    IN  compiled # <<>> /\ AnySearch(compiled, text)

----------------------------------------------------------------------------
(* Gate evaluators: ntds_logic/engine.py *)

MatchMaxHits == 8
ExcludeMaxHits == 50

\* int(contract.get("evidence", {}).get("max_items_per_gate", 8))
max_items_per_gate(c) ==
    IF "max_items_per_gate" \in DOMAIN c.evidence
    THEN c.evidence.max_items_per_gate
    ELSE 8

\* the Optional[HardStop] of eval_exclude_if_any; NoHardStop models None
RECURSIVE ExcludeScan(_, _, _, _)
ExcludeScan(gate, p, c, k) ==
    IF k > Len(gate.query_keys) THEN NoHardStop
    ELSE LET hits == match_evidence(p, gate.query_keys[k], <<>>, ExcludeMaxHits)
             InContext(e) == \E j \in 1..Len(gate.require_context_keys) :
                                line_matches_any(p, e.text, gate.require_context_keys[j])
             filtered == IF gate.require_context_keys # <<>>
                         THEN SelectSeq(hits, InContext)
                         ELSE hits
         IN  IF hits = <<>> \/ filtered = <<>>
             THEN ExcludeScan(gate, p, c, k + 1)
             ELSE HardStop(gate.rule_id, gate.reason,
                           Take(filtered, max_items_per_gate(c)))

\* defect: the scan starts at the second query key
exclude_skipping_first_key(gate, p, c) == ExcludeScan(gate, p, c, 2)

eval_exclude_if_any(gate, p, c) == ExcludeScan(gate, p, c, 1)

\* hits.extend(match_evidence(...)) for qk in qks
AllKeyHits(gate, p) ==
    Concat([k \in 1..Len(gate.query_keys) |->
              match_evidence(p, gate.query_keys[k], gate.allowed_sources, MatchMaxHits)])

\* defect: the evidence list is returned without the [:max_items] slice
evidence_any_uncapped(gate, p, c) ==
    LET hits == AllKeyHits(gate, p)
        passed == Len(hits) >= gate.min_count
    IN  GateResult(gate.gate_id, passed,
                   IF passed THEN "Evidence found." ELSE "Required evidence not found.",
                   hits)

eval_evidence_any(gate, p, c) ==
    LET hits == AllKeyHits(gate, p)
        passed == Len(hits) >= gate.min_count
    IN  GateResult(gate.gate_id, passed,
                   IF passed THEN "Evidence found." ELSE "Required evidence not found.",
                   Take(hits, max_items_per_gate(c)))

eval_requires_treatment_any(gate, p, c) ==
    LET hits == AllKeyHits(gate, p)
        passed == Len(hits) >= gate.min_count
    IN  GateResult(gate.gate_id, passed,
                   IF passed THEN "Treatment evidence found."
                             ELSE "Required treatment not found.",
                   Take(hits, max_items_per_gate(c)))

eval_timing_after_arrival(gate, p, c) ==
    LET hits == match_evidence(p, gate.query_key, gate.allowed_sources, MatchMaxHits)
        IsAfter(e) == is_after(p.facts.arrival_time, e.timestamp) = "true"
        NotAfter(e) == ~IsAfter(e)
        after == SelectSeq(hits, IsAfter)
        unknown == SelectSeq(hits, NotAfter)
    IN  IF hits = <<>>
        THEN GateResult(gate.gate_id, FALSE, "No onset evidence found.", <<>>)
        ELSE IF after # <<>>
        THEN GateResult(gate.gate_id, TRUE, "Onset evidence timestamped after arrival.",
                        Take(after, max_items_per_gate(c)))
        ELSE IF gate.timestamp_required
        THEN GateResult(gate.gate_id, FALSE, "Cannot prove timing after arrival.",
                        Take(unknown, max_items_per_gate(c)))
        ELSE GateResult(gate.gate_id, FALSE, "Timing not proven after arrival.",
                        Take(unknown, max_items_per_gate(c)))

\* the gate_type dispatch of evaluate_event
EvalGateType(gate, p, c) ==
    CASE gate.gate_type = "evidence_any" -> eval_evidence_any(gate, p, c)
      [] gate.gate_type = "timing_after_arrival" -> eval_timing_after_arrival(gate, p, c)
      [] gate.gate_type = "requires_treatment_any" -> eval_requires_treatment_any(gate, p, c)
      [] OTHER -> GateResult(gate.gate_id, FALSE, "Unknown gate_type", <<>>)

\* defect: the declared token is used without consulting outcomes.allowed
resolve_unchecked(token, c) == Upper(token)

\* the outcome token a declared pass_outcome / fail_outcome resolves to
ResolveOutcome(token, c) ==
    IF Upper(token) \in c.allowed THEN Upper(token) ELSE c.missing_required_data

----------------------------------------------------------------------------
(* protocol_engine/model.py *)

ProtocolOutcome == {"COMPLIANT", "NON_COMPLIANT", "NOT_TRIGGERED", "INDETERMINATE"}

StepResult(requirement_id, requirement_type, passed, reason, evidence, missing_data, match_details) ==
    [requirement_id |-> requirement_id, requirement_type |-> requirement_type,
     passed |-> passed, reason |-> reason, evidence |-> evidence,
     missing_data |-> missing_data, match_details |-> match_details]

\* ProtocolResult(..., outcome=ProtocolOutcome.INDETERMINATE)
ProtocolResult ==
    [outcome |-> "INDETERMINATE", step_trace |-> <<>>, warnings |-> <<>>]

----------------------------------------------------------------------------
(* Evidence matching: protocol_engine/engine.py *)

\* _parse_datetime: every format of _TS_FORMATS yields a naive datetime
parse_datetime(ts) ==
    IF ts.fmt \in {"iso", "isoZ"} THEN [ok |-> TRUE, t |-> ts.t] ELSE [ok |-> FALSE, t |-> 0]

\* patient.facts["action_patterns"].get(pattern_key, [])
action_patterns_for_key(p, pattern_key) ==
    IF pattern_key \in DOMAIN p.facts.action_patterns
    THEN p.facts.action_patterns[pattern_key]
    ELSE <<>>

MinutesPerHour == 60

\* defect: a block exactly admission_window_hours before arrival is dropped
block_filters_dropping_boundary(p, e, allowed_sources, admission_window_hours) ==
    LET allowed_set == {allowed_sources[k] : k \in 1..Len(allowed_sources)}
        arrival == parse_datetime(p.facts.arrival_time)
        e_dt == parse_datetime(e.timestamp)
    IN  /\ (allowed_set = {} \/ e.source_type \in allowed_set)
        /\ ~(/\ admission_window_hours > 0
              /\ arrival.ok
              /\ e_dt.ok
              /\ arrival.t - e_dt.t >= admission_window_hours * MinutesPerHour)

\* the source restriction and the admission-window test applied to each block
\* before any pattern is tried
PassesBlockFilters(p, e, allowed_sources, admission_window_hours) ==
    LET allowed_set == {allowed_sources[k] : k \in 1..Len(allowed_sources)}
        arrival == parse_datetime(p.facts.arrival_time)
        e_dt == parse_datetime(e.timestamp)
    IN  /\ (allowed_set = {} \/ e.source_type \in allowed_set)
        /\ ~(/\ admission_window_hours > 0
              /\ arrival.ok
              /\ e_dt.ok
              /\ arrival.t - e_dt.t > admission_window_hours * MinutesPerHour)

\* an occurrence that is not skipped as negated or historical
Qualifies(m, negation_aware, skip_historical) ==
    /\ ~(negation_aware /\ m.negated)
    /\ ~(skip_historical /\ m.historical)

\* some occurrence of regex in the text qualifies (p.finditer(txt) loop)
RegexAccepts(regex, txt, negation_aware, skip_historical) ==
    \E i \in 1..Len(txt.occ) :
        txt.occ[i].re = regex /\ Qualifies(txt.occ[i], negation_aware, skip_historical)

DefaultWindowHours == 24

\* defect: only the first occurrence of the regex decides for the block
occurrence_loop_first_only(regex, txt, i, negation_aware, skip_historical) ==
    LET found == {j \in i..Len(txt.occ) : txt.occ[j].re = regex}
        j == CHOOSE j \in found : \A m \in found : j <= m
    IN  /\ found # {}
        /\ ~(negation_aware /\ txt.occ[j].negated)
        /\ ~(skip_historical /\ txt.occ[j].historical)

\* "for m in p.finditer(txt)" from the i-th occurrence on: TRUE when the loop
\* ends with "matched = True; break", FALSE when it runs out of occurrences
RECURSIVE OccurrenceLoop(_, _, _, _, _)
OccurrenceLoop(regex, txt, i, negation_aware, skip_historical) ==
    IF i > Len(txt.occ) THEN FALSE
    ELSE IF txt.occ[i].re # regex
    THEN OccurrenceLoop(regex, txt, i + 1, negation_aware, skip_historical)
    ELSE IF negation_aware /\ txt.occ[i].negated
    THEN OccurrenceLoop(regex, txt, i + 1, negation_aware, skip_historical)
    ELSE IF skip_historical /\ txt.occ[i].historical
    THEN OccurrenceLoop(regex, txt, i + 1, negation_aware, skip_historical)
    ELSE TRUE

\* "for p in compiled" from the k-th pattern on, left at the first match
RECURSIVE PatternLoop(_, _, _, _, _)
PatternLoop(compiled, txt, k, negation_aware, skip_historical) ==
    IF k > Len(compiled) THEN FALSE
    ELSE IF OccurrenceLoop(compiled[k], txt, 1, negation_aware, skip_historical) THEN TRUE
    ELSE PatternLoop(compiled, txt, k + 1, negation_aware, skip_historical)

\* "for e in patient.evidence" from the n-th block on
RECURSIVE BlockLoop(_, _, _, _, _, _, _, _, _)
BlockLoop(p, compiled, allowed_sources, max_hits, negation_aware, skip_historical, admission_window_hours, n, hits) ==
    IF n > Len(p.evidence) THEN hits
    ELSE LET e == p.evidence[n]
             appended == Append(hits, e)
         IN  IF ~PassesBlockFilters(p, e, allowed_sources, admission_window_hours)
             THEN BlockLoop(p, compiled, allowed_sources, max_hits, negation_aware,
                            skip_historical, admission_window_hours, n + 1, hits)
             ELSE IF ~PatternLoop(compiled, e.text, 1, negation_aware, skip_historical)
             THEN BlockLoop(p, compiled, allowed_sources, max_hits, negation_aware,
                            skip_historical, admission_window_hours, n + 1, hits)
             ELSE IF Len(appended) >= max_hits THEN appended
             ELSE BlockLoop(p, compiled, allowed_sources, max_hits, negation_aware,
                            skip_historical, admission_window_hours, n + 1, appended)

protocol_match_evidence(p, pattern_key, allowed_sources, max_hits, negation_aware, skip_historical, admission_window_hours) ==
    LET compiled == action_patterns_for_key(p, pattern_key)
    IN  IF compiled = <<>> THEN <<>>
        ELSE BlockLoop(p, compiled, allowed_sources, max_hits, negation_aware,
                       skip_historical, admission_window_hours, 1, <<>>)

\* match_evidence_with_details: after the first pattern of the key has been
\* tried on a block, "len(hits) > len(details) - 1" holds (the two lists grow
\* together), so the pattern loop always stops there; "len(hits) >= max_hits"
\* is tested after every block that passed the filters
match_evidence_with_details(p, pattern_key, allowed_sources, max_hits, negation_aware, skip_historical, admission_window_hours) ==
    LET compiled == action_patterns_for_key(p, pattern_key)
        Passing(e) == PassesBlockFilters(p, e, allowed_sources, admission_window_hours)
        Hit(e) == RegexAccepts(compiled[1], e.text, negation_aware, skip_historical)
        passing == SelectSeq(p.evidence, Passing)
        hits == IF max_hits < 1
                THEN IF passing # <<>> /\ Hit(passing[1]) THEN <<passing[1]>> ELSE <<>>
                ELSE Take(SelectSeq(passing, Hit), max_hits)
        Detail(e) == [pattern_key |-> pattern_key,
                      matched |-> CHOOSE i \in 1..Len(e.text.occ) :
                          /\ e.text.occ[i].re = compiled[1]
                          /\ Qualifies(e.text.occ[i], negation_aware, skip_historical)
                          /\ \A j \in 1..(i - 1) :
                                ~(/\ e.text.occ[j].re = compiled[1]
                                  /\ Qualifies(e.text.occ[j], negation_aware,
                                               skip_historical)),
                      pointer |-> e.pointer]
    IN  IF compiled = <<>> THEN [hits |-> <<>>, details |-> <<>>]
        ELSE [hits |-> hits, details |-> [n \in 1..Len(hits) |-> Detail(hits[n])]]

----------------------------------------------------------------------------
(* Condition strings: protocol_engine/engine.py *)

\* A condition string is kept as the list of its ":"-separated parts and the
\* text after its first "@" ("" when it has none).
Condition(parts, at) == [parts |-> parts, at |-> at]

Operators == {"<", "<=", ">", ">=", "==", "!="}

\* float(s): the numerals used in the rule files; -1 stands for ValueError
Float(s) ==
    CASE s = "16" -> 16
      [] s = "24" -> 24
      [] s = "65" -> 65
      [] OTHER -> -1

NotParsed == [ok |-> FALSE]

_parse_numeric_threshold(cond) ==
    IF /\ Len(cond.parts) = 3
       /\ cond.parts[2] \in Operators
       /\ cond.at = ""
       /\ Float(cond.parts[3]) >= 0
    THEN [ok |-> TRUE, parameter |-> cond.parts[1], operator |-> cond.parts[2],
          threshold |-> Float(cond.parts[3])]
    ELSE NotParsed

_parse_temporal_condition(cond) ==
    IF /\ Len(cond.parts) = 5
       /\ cond.parts[1] = "temporal"
       /\ cond.parts[2] = "within"
       /\ cond.parts[4] \in {"minutes", "hours"}
       /\ Float(cond.parts[3]) >= 0
    THEN [ok |-> TRUE, value |-> Float(cond.parts[3]), unit |-> cond.parts[4],
          \* the key keeps any "@SOURCE" suffix and then names no pattern
          pattern_key |-> IF cond.at = "" THEN cond.parts[5] ELSE "unresolved@"]
    ELSE NotParsed

\* _parse_pattern_with_source: (pattern_key, [source]) or (condition_str, None)
_parse_pattern_with_source(cond) ==
    [pattern_key |-> IF Len(cond.parts) = 1 THEN cond.parts[1] ELSE "not_a_key",
     source_restriction |-> IF cond.at = "" THEN <<>> ELSE <<cond.at>>]

_is_pattern_key(p, cond) ==
    _parse_pattern_with_source(cond).pattern_key \in DOMAIN p.facts.action_patterns

\* sources_to_use = source_restriction if given, else acceptable_evidence or None
SourcesToUse(cond, acceptable_evidence) ==
    IF cond.at # "" THEN <<cond.at>> ELSE acceptable_evidence

\* the literal text of a descriptive condition, lower-cased; a condition with
\* ":" or "@" in it is a literal that occurs in no evidence text
Keyword(cond) ==
    IF Len(cond.parts) = 1 /\ cond.at = "" THEN cond.parts[1] ELSE "literal condition text"

_compare_numeric(value, operator, threshold) ==
    CASE operator = "<" -> value < threshold
      [] operator = "<=" -> value <= threshold
      [] operator = ">" -> value > threshold
      [] operator = ">=" -> value >= threshold
      [] operator = "==" -> value = threshold
      [] operator = "!=" -> value # threshold
      [] OTHER -> FALSE

\* _extract_numeric_value: the first mention of the parameter in the text;
\* -1 stands for None
_extract_numeric_value(txt, parameter) ==
    LET found == {i \in 1..Len(txt.num) : txt.num[i].parameter = parameter}
    IN  IF found = {} THEN -1
        ELSE txt.num[CHOOSE i \in found : \A j \in found : i <= j].value

\* an evaluator that reports no extracted value unless the threshold was met
numeric_threshold_blind_to_values(p, parameter, operator, threshold, allowed_sources, max_hits) ==
    LET allowed_set == {allowed_sources[k] : k \in 1..Len(allowed_sources)}
        Satisfies(e) == /\ (allowed_set = {} \/ e.source_type \in allowed_set)
                        /\ _extract_numeric_value(e.text, parameter) >= 0
                        /\ _compare_numeric(_extract_numeric_value(e.text, parameter),
                                            operator, threshold)
        hits == LoopTake(SelectSeq(p.evidence, Satisfies), max_hits)
    IN  [passed |-> hits # <<>>, hits |-> hits, value_found |-> hits # <<>>]

_evaluate_numeric_threshold(p, parameter, operator, threshold, allowed_sources, max_hits) ==
    LET allowed_set == {allowed_sources[k] : k \in 1..Len(allowed_sources)}
        Allowed(e) == allowed_set = {} \/ e.source_type \in allowed_set
        Satisfies(e) == /\ Allowed(e)
                        /\ _extract_numeric_value(e.text, parameter) >= 0
                        /\ _compare_numeric(_extract_numeric_value(e.text, parameter),
                                            operator, threshold)
        hits == LoopTake(SelectSeq(p.evidence, Satisfies), max_hits)
        \* the loop stops at the max_hits-th satisfying block: values of later
        \* blocks are not looked at, but one was already found by then
        value_found == \E n \in 1..Len(p.evidence) :
                          /\ Allowed(p.evidence[n])
                          /\ _extract_numeric_value(p.evidence[n].text, parameter) >= 0
    IN  [passed |-> hits # <<>>, hits |-> hits, value_found |-> value_found]

_evaluate_temporal_condition(p, temporal, allowed_sources, max_hits) ==
    LET arrival_dt == parse_datetime(p.facts.arrival_time)
        max_delta == IF temporal.unit = "hours" THEN temporal.value * MinutesPerHour
                     ELSE temporal.value
        evidence_hits == protocol_match_evidence(p, temporal.pattern_key, allowed_sources,
                                                 max_hits, TRUE, TRUE, DefaultWindowHours)
        Within(e) == LET e_dt == parse_datetime(e.timestamp)
                     IN  /\ e_dt.ok
                         /\ 0 <= e_dt.t - arrival_dt.t
                         /\ e_dt.t - arrival_dt.t <= max_delta
        within_hits == SelectSeq(evidence_hits, Within)
    IN  IF ~arrival_dt.ok THEN [passed |-> FALSE, hits |-> <<>>]
        ELSE [passed |-> within_hits # <<>>, hits |-> within_hits]

----------------------------------------------------------------------------
(* Requirement evaluators: protocol_engine/engine.py *)

\* defect: the cap is read from the NTDS option name
max_items_from_gate_option(c) ==
    IF "max_items_per_gate" \in DOMAIN c.evidence
    THEN c.evidence.max_items_per_gate
    ELSE 8

\* int(contract.get("evidence", {}).get("max_items_per_requirement", 8))
max_items_per_requirement(c) ==
    IF "max_items_per_requirement" \in DOMAIN c.evidence
    THEN c.evidence.max_items_per_requirement
    ELSE 8

\* "if acceptable_evidence and e.source_type.value not in acceptable_evidence"
AcceptableBlocks(p, acceptable_evidence) ==
    LET acceptable == {acceptable_evidence[k] : k \in 1..Len(acceptable_evidence)}
        Ok(e) == acceptable = {} \/ e.source_type \in acceptable
    IN  SelectSeq(p.evidence, Ok)

\* keyword fallback of eval_required_data_elements and eval_timing_critical:
\* the first acceptable block that contains the literal
KeywordHits(p, cond, acceptable_evidence) ==
    LET Has(e) == Keyword(cond) \in e.text.kw
    IN  Take(SelectSeq(AcceptableBlocks(p, acceptable_evidence), Has), 1)

\* keyword fallback of eval_trigger_criteria: "found = True; break" follow the
\* substring test instead of being under it, so the loop ends at the first
\* acceptable block and the condition counts as found whatever its text
TriggerKeyword(p, cond, acceptable_evidence) ==
    LET blocks == AcceptableBlocks(p, acceptable_evidence)
    IN  IF blocks = <<>> THEN [found |-> FALSE, hits |-> <<>>]
        ELSE [found |-> TRUE,
              hits |-> IF Keyword(cond) \in blocks[1].text.kw THEN <<blocks[1]>> ELSE <<>>]

RECURSIVE TriggerLoop(_, _, _, _, _, _, _)
TriggerLoop(req, p, c, i, hits, details, missing) ==
    LET max_items == max_items_per_requirement(c)
        conds == req.trigger_conditions
    IN  IF i > Len(conds)
        THEN IF missing # <<>>
             THEN StepResult(req.id, "MANDATORY", FALSE, "INDETERMINATE: Missing trigger data",
                             Take(hits, max_items), missing, details)
             ELSE IF hits = <<>>
             THEN StepResult(req.id, "MANDATORY", FALSE,
                             "NOT_TRIGGERED: Trigger criteria not met", <<>>, <<>>, <<>>)
             ELSE StepResult(req.id, "MANDATORY", TRUE, "Trigger criteria satisfied",
                             Take(hits, max_items), <<>>, details)
        ELSE LET cond == conds[i]
                 th == _parse_numeric_threshold(cond)
                 num == _evaluate_numeric_threshold(p, th.parameter, th.operator,
                                                    th.threshold, req.acceptable_evidence,
                                                    max_items)
                 pat == match_evidence_with_details(
                            p, _parse_pattern_with_source(cond).pattern_key,
                            SourcesToUse(cond, req.acceptable_evidence), max_items,
                            TRUE, TRUE, DefaultWindowHours)
                 kw == TriggerKeyword(p, cond, req.acceptable_evidence)
                 found == IF th.ok THEN num.passed
                          ELSE IF _is_pattern_key(p, cond) THEN pat.hits # <<>>
                          ELSE kw.found
                 new_hits == IF th.ok THEN num.hits
                             ELSE IF _is_pattern_key(p, cond) THEN pat.hits
                             ELSE kw.hits
                 new_details == IF ~th.ok /\ _is_pattern_key(p, cond)
                                THEN pat.details ELSE <<>>
             IN  IF th.ok /\ ~num.passed /\ num.value_found
                 THEN StepResult(req.id, "MANDATORY", FALSE,
                                 "NOT_TRIGGERED: does not meet threshold", <<>>, <<>>, <<>>)
                 ELSE IF ~found /\ i = 1
                 THEN StepResult(req.id, "MANDATORY", FALSE,
                                 "NOT_TRIGGERED: Primary trigger criteria not met",
                                 <<>>, <<cond>>, <<>>)
                 ELSE TriggerLoop(req, p, c, i + 1,
                                  IF found THEN hits \o new_hits ELSE hits,
                                  IF found THEN details \o new_details ELSE details,
                                  IF found THEN missing ELSE Append(missing, cond))

eval_trigger_criteria(req, p, c) == TriggerLoop(req, p, c, 1, <<>>, <<>>, <<>>)

RECURSIVE DataLoop(_, _, _, _, _, _, _)
DataLoop(req, p, c, i, hits, details, missing) ==
    LET max_items == max_items_per_requirement(c)
        conds == req.trigger_conditions
    IN  IF i > Len(conds)
        THEN IF missing # <<>>
             THEN StepResult(req.id, "MANDATORY", FALSE,
                             "INDETERMINATE: Missing required data elements",
                             Take(hits, max_items), missing, details)
             ELSE StepResult(req.id, "MANDATORY", TRUE, "All required data elements present",
                             Take(hits, max_items), <<>>, details)
        ELSE LET cond == conds[i]
                 \* negation_aware=False: a documented negative counts
                 pat == match_evidence_with_details(
                            p, _parse_pattern_with_source(cond).pattern_key,
                            SourcesToUse(cond, req.acceptable_evidence), max_items,
                            FALSE, TRUE, DefaultWindowHours)
                 new_hits == IF _is_pattern_key(p, cond) THEN pat.hits
                             ELSE KeywordHits(p, cond, req.acceptable_evidence)
                 new_details == IF _is_pattern_key(p, cond) THEN pat.details ELSE <<>>
             IN  DataLoop(req, p, c, i + 1, hits \o new_hits, details \o new_details,
                          IF new_hits = <<>> THEN Append(missing, cond) ELSE missing)

eval_required_data_elements(req, p, c) == DataLoop(req, p, c, 1, <<>>, <<>>, <<>>)

\* the trigger_conditions loop of eval_timing_critical
RECURSIVE TimingLoop(_, _, _, _, _, _, _)
TimingLoop(req, p, c, i, hits, details, timing_failures) ==
    LET max_items == max_items_per_requirement(c)
        conds == req.trigger_conditions
    IN  IF i > Len(conds)
        THEN [hits |-> hits, details |-> details, timing_failures |-> timing_failures]
        ELSE LET cond == conds[i]
                 temporal == _parse_temporal_condition(cond)
                 tmp == _evaluate_temporal_condition(p, temporal, req.acceptable_evidence,
                                                     max_items)
                 pat == match_evidence_with_details(
                            p, _parse_pattern_with_source(cond).pattern_key,
                            SourcesToUse(cond, req.acceptable_evidence), max_items,
                            TRUE, TRUE, DefaultWindowHours)
             IN  IF temporal.ok
                 THEN TimingLoop(req, p, c, i + 1,
                                 IF tmp.passed THEN hits \o tmp.hits ELSE hits, details,
                                 IF tmp.passed THEN timing_failures
                                 ELSE Append(timing_failures, temporal.pattern_key))
                 ELSE IF _is_pattern_key(p, cond)
                 THEN TimingLoop(req, p, c, i + 1, hits \o pat.hits,
                                 details \o pat.details, timing_failures)
                 ELSE TimingLoop(req, p, c, i + 1,
                                 hits \o KeywordHits(p, cond, req.acceptable_evidence),
                                 details, timing_failures)

\* the exclusion_conditions loop of eval_timing_critical: the hits of the first
\* exclusion pattern key that matches, <<>> when none does
RECURSIVE TimingExclusion(_, _, _, _)
TimingExclusion(req, p, c, k) ==
    IF k > Len(req.exclusion_conditions) THEN <<>>
    ELSE LET cond == req.exclusion_conditions[k]
             exclusion_hits ==
                 IF _is_pattern_key(p, cond)
                 THEN protocol_match_evidence(
                          p, _parse_pattern_with_source(cond).pattern_key,
                          SourcesToUse(cond, req.acceptable_evidence),
                          max_items_per_requirement(c), TRUE, TRUE, DefaultWindowHours)
                 ELSE <<>>
         IN  IF exclusion_hits # <<>> THEN exclusion_hits
             ELSE TimingExclusion(req, p, c, k + 1)

eval_timing_critical(req, p, c) ==
    LET max_items == max_items_per_requirement(c)
        loop == TimingLoop(req, p, c, 1, <<>>, <<>>, <<>>)
        exclusion_hits == TimingExclusion(req, p, c, 1)
    IN  IF loop.hits = <<>>
        THEN StepResult(req.id, "CONDITIONAL", FALSE,
                        IF loop.timing_failures # <<>>
                        THEN "NON_COMPLIANT: Timing requirements not met"
                        ELSE "NON_COMPLIANT: Timing-critical elements not documented",
                        <<>>, <<>>, loop.details)
        ELSE IF exclusion_hits # <<>>
        THEN StepResult(req.id, "CONDITIONAL", FALSE,
                        "NON_COMPLIANT: Timing violation detected",
                        Take(exclusion_hits, max_items), <<>>, loop.details)
        ELSE StepResult(req.id, "CONDITIONAL", TRUE, "Timing requirements met",
                        Take(loop.hits, max_items), <<>>, loop.details)

\* "<word> in req_id" for the requirement ids of the rule files
IdContains(req_id, word) ==
    CASE word = "TRIGGER" -> req_id \in {"REQ_TRIGGER_CRITERIA"}
      [] word = "DATA" -> req_id \in {"REQ_REQUIRED_DATA_ELEMENTS"}
      [] word = "TIMING" -> req_id \in {"REQ_TIMING_CRITICAL"}
      [] OTHER -> FALSE

\* "<word> in step_result.reason"
ReasonContains(reason, word) ==
    CASE word = "INDETERMINATE" ->
            reason \in {"INDETERMINATE: Missing trigger data",
                        "INDETERMINATE: Missing required data elements"}
      [] word = "NOT_TRIGGERED" ->
            reason \in {"NOT_TRIGGERED: does not meet threshold",
                        "NOT_TRIGGERED: Primary trigger criteria not met",
                        "NOT_TRIGGERED: Trigger criteria not met"}
      [] OTHER -> FALSE

\* the requirement-id dispatch of evaluate_protocol; recognised is FALSE for
\* the branch that appends a warning and skips the requirement; raised is TRUE
\* when the evaluator iterates over trigger_conditions = None (TypeError)
Dispatch(req, p, c) ==
    IF IdContains(req.id, "TRIGGER")
    THEN [recognised |-> TRUE, raised |-> req.null_conditions,
          step |-> eval_trigger_criteria(req, p, c)]
    ELSE IF IdContains(req.id, "DATA")
    THEN [recognised |-> TRUE, raised |-> req.null_conditions,
          step |-> eval_required_data_elements(req, p, c)]
    ELSE IF IdContains(req.id, "TIMING")
    THEN [recognised |-> TRUE, raised |-> req.null_conditions,
          step |-> eval_timing_critical(req, p, c)]
    ELSE [recognised |-> FALSE, raised |-> FALSE,
          step |-> StepResult(req.id, "MANDATORY", FALSE, "", <<>>, <<>>, <<>>)]

\* defect: a failed MANDATORY requirement is NON_COMPLIANT whatever its reason
after_step_ignoring_reason(traced, req, step, i) ==
    IF ~step.passed /\ req.requirement_type \in {"MANDATORY", "CONDITIONAL"}
    THEN [r |-> [traced EXCEPT !.outcome = "NON_COMPLIANT"], pc |-> "done", ri |-> i]
    ELSE [r |-> traced, pc |-> "requirements", ri |-> i + 1]

\* what follows r.step_trace.append(step_result) in the requirement loop
AfterStep(traced, req, step, i) ==
    IF ~step.passed /\ req.requirement_type = "MANDATORY"
    THEN [r |-> [traced EXCEPT !.outcome =
                    IF ReasonContains(step.reason, "INDETERMINATE") THEN "INDETERMINATE"
                    ELSE IF ReasonContains(step.reason, "NOT_TRIGGERED") THEN "NOT_TRIGGERED"
                    ELSE "NON_COMPLIANT"],
          pc |-> "done", ri |-> i]
    ELSE IF ~step.passed /\ req.requirement_type = "CONDITIONAL"
    THEN [r |-> [traced EXCEPT !.outcome = "NON_COMPLIANT"], pc |-> "done", ri |-> i]
    ELSE [r |-> traced, pc |-> "requirements", ri |-> i + 1]

----------------------------------------------------------------------------
(* Inputs of evaluate_event: pattern dictionary, evidence, rules, contract *)

\* patient.facts["query_patterns"]: symbolic key -> ordered regex list
QueryPatterns ==
    [dx |-> <<"re_dx">>,
     tx |-> <<"re_tx1", "re_tx2">>,
     neg_imaging |-> <<"re_neg">>,
     poa |-> <<"re_poa">>,
     poa_context |-> <<"re_present_on">>,
     empty_key |-> <<>>]

Occ(re) == [re |-> re, negated |-> FALSE, historical |-> FALSE]

Evidence(source_type, timestamp, text) ==
    [source_type |-> source_type, timestamp |-> timestamp, text |-> text, pointer |-> 0]

EventEvidenceMenu ==
    << Evidence("LAB", NoTs, <<Occ("re_dx"), Occ("re_tx1"), Occ("re_poa")>>),
       Evidence("IMAGING", IsoTs(12), <<Occ("re_dx")>>),
       Evidence("PHYSICIAN_NOTE", IsoZTs(12),
                <<Occ("re_tx2"), Occ("re_poa"), Occ("re_present_on")>>),
       Evidence("IMAGING", IsoTs(10), <<Occ("re_neg"), Occ("re_tx1")>> ) >>

ArrivalMenu == {NoTs, IsoTs(10)}

\* the pointer of a block is its position in the record
Located(blocks) == [i \in 1..Len(blocks) |-> [blocks[i] EXCEPT !.pointer = i]]

PatientFacts(arrival_time, blocks) ==
    [facts |-> [arrival_time |-> arrival_time, query_patterns |-> QueryPatterns],
     evidence |-> Located(blocks)]

EventPatients ==
    {PatientFacts(a, ev) : a \in ArrivalMenu,
                           ev \in Excerpts(EventEvidenceMenu, MaxEvidence)}

Gate(gate_id, gate_type, query_keys, min_count, allowed_sources, required, fail_outcome, pass_outcome) ==
    [gate_id |-> gate_id, gate_type |-> gate_type, query_keys |-> query_keys,
     query_key |-> IF query_keys = <<>> THEN "" ELSE query_keys[1],
     min_count |-> min_count, allowed_sources |-> allowed_sources,
     required |-> required, fail_outcome |-> fail_outcome,
     pass_outcome |-> pass_outcome, timestamp_required |-> TRUE]

\* gate.get("fail_outcome", "UNABLE_TO_DETERMINE"), gate.get("pass_outcome", None)
GateMenu ==
    { Gate("dx_documented", "evidence_any", <<"dx", "tx">>, 1, <<>>, TRUE, "NO", ""),
      Gate("imaging_negative", "evidence_any", <<"neg_imaging">>, 1, <<>>, FALSE,
           "UNABLE_TO_DETERMINE", "no"),
      Gate("onset_after_arrival", "timing_after_arrival", <<"dx">>, 1, <<"IMAGING", "LAB">>,
           TRUE, "UNABLE_TO_DETERMINE", ""),
      Gate("treated", "requires_treatment_any", <<"tx", "ghost_key">>, 2, <<>>, TRUE,
           "excluded", "yes"),
      Gate("lab_threshold", "numeric_threshold", <<"dx">>, 1, <<>>, FALSE,
           "UNABLE_TO_DETERMINE", "") }

Exclusion(rule_id, gate_type, query_keys, require_context_keys) ==
    [rule_id |-> rule_id, gate_type |-> gate_type, query_keys |-> query_keys,
     require_context_keys |-> require_context_keys, reason |-> "Excluded per NTDS rule"]

ExclusionMenu ==
    { Exclusion("EXCL_POA", "exclude_if_any", <<"empty_key", "poa">>, <<"poa_context">>),
      Exclusion("EXCL_DX", "exclude_if_any", <<"dx">>, <<>>),
      Exclusion("EXCL_NOTE", "note", <<"dx">>, <<>>) }

EventRules ==
    {[gates |-> g, exclusions |-> x] :
        g \in SeqsUpTo(GateMenu, 1, MaxGates),
        x \in SeqsUpTo(ExclusionMenu, 0, MaxExclusions)}

NoEvidenceOptions == [k \in {} |-> 0]

\* contract: outcomes.allowed, outcomes.defaults.missing_required_data, evidence
Contract(allowed, missing_required_data, evidence) ==
    [allowed |-> allowed, missing_required_data |-> missing_required_data,
     evidence |-> evidence]

ContractMenu ==
    { Contract({"YES", "NO", "EXCLUDED", "UNABLE_TO_DETERMINE"}, "UNABLE_TO_DETERMINE",
               [max_items_per_gate |-> 2]),
      Contract({"YES", "NO", "EXCLUDED", "UNABLE_TO_DETERMINE"}, "UNABLE_TO_DETERMINE",
               NoEvidenceOptions),
      Contract({"YES", "UNABLE_TO_DETERMINE"}, "UNABLE_TO_DETERMINE",
               [max_items_per_gate |-> 1]),
      Contract({"YES", "NO"}, "INDETERMINATE", [max_items_per_gate |-> 1]) }

----------------------------------------------------------------------------
(* Inputs of evaluate_protocol *)

\* patient.facts["action_patterns"]: symbolic key -> ordered regex list
ActionPatterns ==
    [tbi |-> <<"re_tbi", "re_head_injury">>,
     ct_head |-> <<"re_ct_head">>,
     delay |-> <<"re_delayed">>,
     unmapped |-> <<>>]

Plain(re) == [re |-> re, negated |-> FALSE, historical |-> FALSE]
Negated(re) == [re |-> re, negated |-> TRUE, historical |-> FALSE]
Historical(re) == [re |-> re, negated |-> FALSE, historical |-> TRUE]

Mention(parameter, value) == [parameter |-> parameter, value |-> value]

Text(occ, num, kw) == [occ |-> occ, num |-> num, kw |-> kw]

ArrivalMinute == 600

ProtocolEvidenceMenu ==
    << Evidence("TRAUMA_HP", IsoTs(ArrivalMinute - 25 * MinutesPerHour),
                Text(<<Plain("re_tbi"), Plain("re_ct_head")>>, <<Mention("age", 70)>>, {})),
       Evidence("ED_NOTE", NoTs,
                Text(<<Negated("re_tbi"), Plain("re_head_injury")>>, <<Mention("age", 12)>>,
                     {})),
       Evidence("TRAUMA_HP", IsoTs(ArrivalMinute + 60),
                Text(<<Plain("re_tbi")>>, <<>>, {"blunt mechanism"})),
       Evidence("IMAGING", IsoZTs(ArrivalMinute + 24 * MinutesPerHour),
                Text(<<Historical("re_ct_head"), Plain("re_ct_head")>>, <<>>,
                     {"blunt mechanism"})),
       Evidence("IMAGING", IsoTs(ArrivalMinute + 25 * MinutesPerHour),
                Text(<<Plain("re_ct_head"), Plain("re_delayed")>>, <<>>, {})) >>

ProtocolArrivalMenu == {NoTs, IsoTs(ArrivalMinute)}

ProtocolFacts(arrival_time, blocks) ==
    [facts |-> [arrival_time |-> arrival_time, action_patterns |-> ActionPatterns],
     evidence |-> Located(blocks)]

ProtocolPatients ==
    {ProtocolFacts(a, ev) : a \in ProtocolArrivalMenu,
                            ev \in Excerpts(ProtocolEvidenceMenu, MaxEvidence)}

Requirement(id, requirement_type, trigger_conditions, acceptable_evidence, exclusion_conditions) ==
    [id |-> id, requirement_type |-> requirement_type,
     trigger_conditions |-> trigger_conditions,
     acceptable_evidence |-> acceptable_evidence,
     exclusion_conditions |-> exclusion_conditions,
     \* "trigger_conditions": null in the rule file
     null_conditions |-> FALSE]

Key(k) == Condition(<<k>>, "")
KeyAt(k, source) == Condition(<<k>>, source)

RequirementMenu ==
    { Requirement("REQ_TRIGGER_CRITERIA", "MANDATORY",
                  <<Key("tbi"), Condition(<<"age", ">=", "65">>, "")>>, <<>>, <<>>),
      Requirement("REQ_TRIGGER_CRITERIA", "MANDATORY",
                  <<Condition(<<"age", "<", "16">>, ""), Key("blunt mechanism")>>,
                  <<"TRAUMA_HP", "ED_NOTE">>, <<>>),
      Requirement("REQ_TRIGGER_CRITERIA", "CONDITIONAL", <<Key("tbi")>>, <<>>, <<>>),
      Requirement("REQ_REQUIRED_DATA_ELEMENTS", "MANDATORY",
                  <<KeyAt("ct_head", "IMAGING"), Key("tbi")>>, <<>>, <<>>),
      Requirement("REQ_REQUIRED_DATA_ELEMENTS", "CONTRAINDICATED",
                  <<Key("blunt mechanism")>>, <<"ED_NOTE">>, <<>>),
      Requirement("REQ_TIMING_CRITICAL", "CONDITIONAL",
                  <<Condition(<<"temporal", "within", "24", "hours", "ct_head">>, ""),
                    Key("tbi")>>, <<>>, <<Key("delay")>>),
      Requirement("REQ_CONTRAINDICATIONS", "MANDATORY", <<Key("tbi")>>, <<>>, <<>>) }

ProtocolRules ==
    {[evaluation_mode |-> m, requirements |-> q] :
        m \in {"EVALUABLE", "CONTEXT_ONLY"},
        q \in SeqsUpTo(RequirementMenu, 0, MaxRequirements)}

\* the protocol contract carries evidence limits only
ProtocolContractMenu ==
    { [evidence |-> [max_items_per_requirement |-> 1]],
      [evidence |-> [max_items_per_requirement |-> 2]],
      [evidence |-> [max_items_per_gate |-> 1]] }

----------------------------------------------------------------------------
(* evaluate_event as a state machine: one step per loop iteration *)

NoCall == [pc |-> "none", r |-> EventResult]

NoProtocolCall == [pc |-> "none", r |-> ProtocolResult]

\* no evaluate_event call in this run
IdleEvent ==
    /\ event_rules = [gates |-> <<>>, exclusions |-> <<>>]
    /\ contract = Contract({"YES", "NO", "EXCLUDED", "UNABLE_TO_DETERMINE"},
                           "UNABLE_TO_DETERMINE", NoEvidenceOptions)
    /\ patient = PatientFacts(NoTs, <<>>)
    /\ r = EventResult
    /\ pc = "idle"
    /\ xi = 1
    /\ gi = 1
    /\ run = 1
    /\ first = NoCall

\* no evaluate_protocol call in this run
IdleProtocol ==
    /\ protocol_rules = [evaluation_mode |-> "EVALUABLE", requirements |-> <<>>]
    /\ protocol_contract = [evidence |-> NoEvidenceOptions]
    /\ protocol_patient = ProtocolFacts(NoTs, <<>>)
    /\ pr = ProtocolResult
    /\ ppc = "idle"
    /\ ri = 1
    /\ prun = 1
    /\ pfirst = NoProtocolCall

InitEvent ==
    /\ event_rules \in EventRules
    /\ contract \in ContractMenu
    /\ patient \in EventPatients
    /\ r = EventResult
    /\ pc = "start"
    /\ xi = 1
    /\ gi = 1
    /\ run = 1
    /\ first = NoCall
    /\ IdleProtocol

InitProtocol ==
    /\ protocol_rules \in ProtocolRules
    /\ protocol_contract \in ProtocolContractMenu
    /\ protocol_patient \in ProtocolPatients
    /\ pr = ProtocolResult
    /\ ppc = "start"
    /\ ri = 1
    /\ prun = 1
    /\ pfirst = NoProtocolCall
    /\ IdleEvent

\* one patient of a batch (ingestion/batch_eval.py evaluate_patient): a protocol
\* and then an event are evaluated on the patient's record
InitBatch ==
    /\ event_rules \in {er \in EventRules :
                            /\ Len(er.gates) = 2
                            /\ er.gates[1].gate_id = "dx_documented"
                            /\ er.gates[2].gate_id = "onset_after_arrival"
                            /\ er.exclusions = <<>>}
    /\ contract = Contract({"YES", "NO", "EXCLUDED", "UNABLE_TO_DETERMINE"},
                           "UNABLE_TO_DETERMINE", NoEvidenceOptions)
    /\ patient \in {p \in EventPatients : Len(p.evidence) <= BatchEvidence}
    /\ r = EventResult
    /\ pc = "start"
    /\ xi = 1
    /\ gi = 1
    /\ run = 1
    /\ first = NoCall
    /\ protocol_rules \in {q \in ProtocolRules :
                               /\ q.evaluation_mode = "EVALUABLE"
                               /\ Len(q.requirements) = 2
                               /\ q.requirements[1].id = "REQ_TRIGGER_CRITERIA"
                               /\ q.requirements[1].requirement_type = "MANDATORY"
                               /\ q.requirements[2].id = "REQ_REQUIRED_DATA_ELEMENTS"}
    /\ protocol_contract = [evidence |-> [max_items_per_requirement |-> 2]]
    /\ protocol_patient \in {p \in ProtocolPatients : Len(p.evidence) <= BatchEvidence}
    /\ pr = ProtocolResult
    /\ ppc = "start"
    /\ ri = 1
    /\ prun = 1
    /\ pfirst = NoProtocolCall

\* evaluate_patient calls _evaluate_ntds after its loop over the protocols
ProtocolsEvaluated == ppc = "idle" \/ (ppc = "done" /\ prun = 2)

\* defect: the result object of the previous call is reused, so gate_trace
\* still holds that call's entries
begin_with_stale_trace ==
    /\ pc = "start"
    /\ ProtocolsEvaluated
    /\ r' = [EventResult EXCEPT !.gate_trace = r.gate_trace]
    /\ xi' = 1
    /\ gi' = 1
    /\ pc' = IF event_rules.exclusions = <<>> THEN "gates" ELSE "exclusions"
    /\ UNCHANGED <<event_rules, contract, patient, run, first, protocol_vars, batch_vars, call_vars>>

\* r = EventResult(..., outcome=Outcome.UNABLE_TO_DETERMINE)
Begin ==
    /\ pc = "start"
    /\ ProtocolsEvaluated
    /\ r' = EventResult
    /\ xi' = 1
    /\ gi' = 1
    /\ pc' = IF event_rules.exclusions = <<>> THEN "gates" ELSE "exclusions"
    /\ UNCHANGED <<event_rules, contract, patient, run, first, protocol_vars, batch_vars, call_vars>>

\* one iteration of "for ex in event_rules.get('exclusions', [])"
CheckExclusion ==
    /\ pc = "exclusions"
    /\ xi <= Len(event_rules.exclusions)
    /\ LET ex == event_rules.exclusions[xi]
           hs == eval_exclude_if_any(ex, patient, contract)
           last == xi = Len(event_rules.exclusions)
       IN  IF ex.gate_type = "exclude_if_any" /\ hs.present
           THEN /\ r' = [r EXCEPT !.outcome = "EXCLUDED", !.hard_stop = hs]
                /\ pc' = "done"
                /\ xi' = xi
           ELSE /\ r' = r
                /\ xi' = xi + 1
                /\ pc' = IF last THEN "gates" ELSE "exclusions"
    /\ UNCHANGED <<event_rules, contract, patient, gi, run, first, protocol_vars, batch_vars, call_vars>>

\* defect: a failing required gate does not end the loop
after_gate_without_halt(traced, gate, gr, c, i) ==
    LET pass_outcome_up == ResolveOutcome(gate.pass_outcome, c)
    IN  IF gate.pass_outcome # "" /\ gr.passed /\ pass_outcome_up \in Outcome
        THEN [r |-> [traced EXCEPT !.outcome = pass_outcome_up,
                                   !.hard_stop = HardStop(gate.gate_id, "pass_outcome",
                                                          gr.evidence)],
              pc |-> "done", gi |-> i]
        ELSE [r |-> traced, pc |-> "gates", gi |-> i + 1]

\* what follows r.gate_trace.append(gr) in the gate loop: the pass_outcome
\* early exit, the required-gate halt, or the next iteration
AfterGate(traced, gate, gr, c, i) ==
    LET pass_outcome_up == ResolveOutcome(gate.pass_outcome, c)
        fail_outcome == ResolveOutcome(gate.fail_outcome, c)
    IN  IF gate.pass_outcome # "" /\ gr.passed /\ pass_outcome_up \in Outcome
        THEN \* early exit with the pass outcome and an audit HardStop
             [r |-> [traced EXCEPT !.outcome = pass_outcome_up,
                                   !.hard_stop = HardStop(gate.gate_id, "pass_outcome",
                                                          gr.evidence)],
              pc |-> "done", gi |-> i]
        ELSE IF gate.required /\ ~gr.passed
        THEN IF fail_outcome \in Outcome
             THEN [r |-> [traced EXCEPT !.outcome = fail_outcome],
                   pc |-> "done", gi |-> i]
             ELSE \* Outcome(fail_outcome) raises ValueError out of evaluate_event
                  [r |-> traced, pc |-> "raised", gi |-> i]
        ELSE \* also reached when Outcome(pass_outcome_up) raised and was swallowed
             [r |-> traced, pc |-> "gates", gi |-> i + 1]

\* one iteration of "for gate in event_rules.get('gates', [])"
EvaluateGate ==
    /\ pc = "gates"
    /\ gi <= Len(event_rules.gates)
    /\ LET gate == event_rules.gates[gi]
           gr == EvalGateType(gate, patient, contract)
           traced == [r EXCEPT !.gate_trace = Append(@, gr)]
           nxt == AfterGate(traced, gate, gr, contract, gi)
       IN  /\ r' = nxt.r
           /\ pc' = nxt.pc
           /\ gi' = nxt.gi
    /\ UNCHANGED <<event_rules, contract, patient, xi, run, first, protocol_vars, batch_vars, call_vars>>

\* defect: the loop's end returns r with the outcome it was constructed with
return_without_outcome ==
    /\ pc = "gates"
    /\ gi > Len(event_rules.gates)
    /\ r' = r
    /\ pc' = "done"
    /\ UNCHANGED <<event_rules, contract, patient, xi, gi, run, first, protocol_vars, batch_vars, call_vars>>

\* r.outcome = Outcome.YES after the gate loop
ReturnYes ==
    /\ pc = "gates"
    /\ gi > Len(event_rules.gates)
    /\ r' = [r EXCEPT !.outcome = "YES"]
    /\ pc' = "done"
    /\ UNCHANGED <<event_rules, contract, patient, xi, gi, run, first, protocol_vars, batch_vars, call_vars>>

\* the caller evaluates the same (event_rules, contract, patient) once more
EvaluateAgain ==
    /\ pc \in {"done", "raised"}
    /\ run = 1
    /\ first' = [pc |-> pc, r |-> r]
    /\ run' = 2
    /\ pc' = "start"
    /\ UNCHANGED <<event_rules, contract, patient, r, xi, gi, protocol_vars, batch_vars, call_vars>>

NextEvent == Begin \/ CheckExclusion \/ EvaluateGate \/ ReturnYes \/ EvaluateAgain

----------------------------------------------------------------------------
(* evaluate_protocol as a state machine: one step per loop iteration *)

\* r = ProtocolResult(..., outcome=INDETERMINATE) and the CONTEXT_ONLY bypass
BeginProtocol ==
    /\ ppc = "start"
    /\ IF protocol_rules.evaluation_mode = "CONTEXT_ONLY"
       THEN /\ pr' = [ProtocolResult EXCEPT !.outcome = "NOT_TRIGGERED",
                                            !.warnings = <<"CONTEXT_ONLY protocol">>]
            /\ ppc' = "done"
       ELSE /\ pr' = ProtocolResult
            /\ ppc' = "requirements"
    /\ ri' = 1
    /\ UNCHANGED <<protocol_rules, protocol_contract, protocol_patient, prun, pfirst,
                   event_vars, batch_vars, call_vars>>

\* one iteration of "for req in requirements"
EvaluateRequirement ==
    /\ ppc = "requirements"
    /\ ri <= Len(protocol_rules.requirements)
    /\ LET req == protocol_rules.requirements[ri]
           d == Dispatch(req, protocol_patient, protocol_contract)
           traced == [pr EXCEPT !.step_trace = Append(@, d.step)]
           nxt == AfterStep(traced, req, d.step, ri)
       IN  IF d.raised
           THEN \* the exception leaves evaluate_protocol
                /\ pr' = pr
                /\ ppc' = "raised"
                /\ ri' = ri
           ELSE IF d.recognised
           THEN /\ pr' = nxt.r
                /\ ppc' = nxt.pc
                /\ ri' = nxt.ri
           ELSE \* unknown requirement: warning, then "continue"
                /\ pr' = [pr EXCEPT !.warnings = Append(@, "Unknown requirement type")]
                /\ ppc' = "requirements"
                /\ ri' = ri + 1
    /\ UNCHANGED <<protocol_rules, protocol_contract, protocol_patient, prun, pfirst,
                   event_vars, batch_vars, call_vars>>

\* r.outcome = ProtocolOutcome.COMPLIANT after the requirement loop
ReturnCompliant ==
    /\ ppc = "requirements"
    /\ ri > Len(protocol_rules.requirements)
    /\ pr' = [pr EXCEPT !.outcome = "COMPLIANT"]
    /\ ppc' = "done"
    /\ UNCHANGED <<protocol_rules, protocol_contract, protocol_patient, ri, prun, pfirst,
                   event_vars, batch_vars, call_vars>>

\* the caller evaluates the same (protocol_rules, contract, patient) once more
EvaluateProtocolAgain ==
    /\ ppc = "done"
    /\ prun = 1
    /\ pfirst' = [pc |-> ppc, r |-> pr]
    /\ prun' = 2
    /\ ppc' = "start"
    /\ UNCHANGED <<protocol_rules, protocol_contract, protocol_patient, pr, ri, event_vars,
                   batch_vars, call_vars>>

NextProtocol ==
    BeginProtocol \/ EvaluateRequirement \/ ReturnCompliant \/ EvaluateProtocolAgain

\* no evaluate_patient call in this run
IdleBatch ==
    /\ protocols = <<>>
    /\ ntds_rulesets = <<>>
    /\ results = <<>>
    /\ ntds_results = <<>>
    /\ bpc = "idle"
    /\ bk = 1

\* no separate matcher or classifier call in this run
IdleCall ==
    /\ args = <<>>
    /\ ret = <<>>
    /\ fpc = "idle"

Init == (InitEvent \/ InitProtocol \/ InitBatch) /\ IdleBatch /\ IdleCall

Next == NextEvent \/ NextProtocol

Spec == Init /\ [][Next]_vars

----------------------------------------------------------------------------
(* ingestion/batch_eval.py: evaluate_patient and _evaluate_ntds *)

MaxRulesets == 2

\* evaluate_protocol as a function of its arguments: how the call ends
\* ("done" or "raised") and the result it returns
RECURSIVE RequirementLoop(_, _, _, _, _)
RequirementLoop(rules, c, p, res, i) ==
    IF i > Len(rules.requirements)
    THEN [pc |-> "done", r |-> [res EXCEPT !.outcome = "COMPLIANT"]]
    ELSE LET req == rules.requirements[i]
             d == Dispatch(req, p, c)
             traced == [res EXCEPT !.step_trace = Append(@, d.step)]
             nxt == AfterStep(traced, req, d.step, i)
         IN  IF d.raised THEN [pc |-> "raised", r |-> res]
             ELSE IF ~d.recognised
             THEN RequirementLoop(rules, c, p,
                                  [res EXCEPT !.warnings = Append(@, "Unknown requirement type")],
                                  i + 1)
             ELSE IF nxt.pc = "done" THEN [pc |-> "done", r |-> nxt.r]
             ELSE RequirementLoop(rules, c, p, nxt.r, i + 1)

evaluate_protocol(rules, c, p) ==
    IF rules.evaluation_mode = "CONTEXT_ONLY"
    THEN [pc |-> "done", r |-> [ProtocolResult EXCEPT !.outcome = "NOT_TRIGGERED",
                                                      !.warnings = <<"CONTEXT_ONLY protocol">>]]
    ELSE RequirementLoop(rules, c, p, ProtocolResult, 1)

\* the first exclusion of gate_type exclude_if_any that yields a HardStop
RECURSIVE ExclusionLoop(_, _, _, _)
ExclusionLoop(rules, c, p, i) ==
    IF i > Len(rules.exclusions) THEN NoHardStop
    ELSE LET ex == rules.exclusions[i]
             hs == eval_exclude_if_any(ex, p, c)
         IN  IF ex.gate_type = "exclude_if_any" /\ hs.present THEN hs
             ELSE ExclusionLoop(rules, c, p, i + 1)

RECURSIVE GateLoop(_, _, _, _, _)
GateLoop(rules, c, p, res, i) ==
    IF i > Len(rules.gates)
    THEN [pc |-> "done", r |-> [res EXCEPT !.outcome = "YES"]]
    ELSE LET gate == rules.gates[i]
             gr == EvalGateType(gate, p, c)
             traced == [res EXCEPT !.gate_trace = Append(@, gr)]
             nxt == AfterGate(traced, gate, gr, c, i)
         IN  IF nxt.pc = "gates" THEN GateLoop(rules, c, p, nxt.r, i + 1)
             ELSE [pc |-> nxt.pc, r |-> nxt.r]

\* evaluate_event as a function of its arguments
evaluate_event(rules, c, p) ==
    LET hs == ExclusionLoop(rules, c, p, 1)
    IN  IF hs.present
        THEN [pc |-> "done", r |-> [EventResult EXCEPT !.outcome = "EXCLUDED", !.hard_stop = hs]]
        ELSE GateLoop(rules, c, p, EventResult, 1)

\* only protocols that are EVALUABLE with requirements defined
_get_evaluable_protocols(ps) ==
    LET Evaluable(proto) == proto.evaluation_mode = "EVALUABLE" /\ proto.requirements # <<>>
    IN  SelectSeq(ps, Evaluable)

SnippetLimit == 4

\* the dict appended to results: the serialised ProtocolResult, or the
\* ERROR entry of the except branch; error is "" when the dict has no such key
ProtocolEntry(proto, call) ==
    IF call.pc = "raised"
    THEN [protocol_id |-> proto.protocol_id, outcome |-> "ERROR",
          error |-> "'NoneType' object is not iterable", step_trace |-> <<>>,
          warnings |-> <<>>]
    ELSE [protocol_id |-> proto.protocol_id, outcome |-> call.r.outcome, error |-> "",
          step_trace |-> [n \in 1..Len(call.r.step_trace) |->
              LET step == call.r.step_trace[n]
              IN  [requirement_id |-> step.requirement_id, passed |-> step.passed,
                   reason |-> step.reason, missing_data |-> step.missing_data,
                   evidence_count |-> Len(step.evidence),
                   evidence_snippets |-> Take(step.evidence, SnippetLimit),
                   match_details |-> step.match_details]],
          warnings |-> call.r.warnings]

\* the dict appended to ntds_results
EventEntry(rs, call) ==
    IF call.pc = "raised"
    THEN [event_id |-> rs.event_id, outcome |-> "ERROR",
          error |-> "not a valid Outcome", gate_trace |-> <<>>, warnings |-> <<>>]
    ELSE [event_id |-> rs.event_id, outcome |-> call.r.outcome, error |-> "",
          gate_trace |-> [n \in 1..Len(call.r.gate_trace) |->
              LET g == call.r.gate_trace[n]
              IN  [gate |-> g.gate, passed |-> g.passed, reason |-> g.reason,
                   evidence_count |-> Len(g.evidence),
                   evidence_snippets |-> Take(g.evidence, SnippetLimit)]],
          warnings |-> call.r.warnings]

\* resources["protocols"]["protocols"]
Protocol(protocol_id, evaluation_mode, requirements) ==
    [protocol_id |-> protocol_id, evaluation_mode |-> evaluation_mode,
     requirements |-> requirements]

BatchProtocolMenu ==
    { Protocol("TBI", "EVALUABLE",
               << Requirement("REQ_TRIGGER_CRITERIA", "MANDATORY", <<Key("tbi")>>, <<>>, <<>>),
                  Requirement("REQ_REQUIRED_DATA_ELEMENTS", "MANDATORY",
                              <<KeyAt("ct_head", "IMAGING")>>, <<>>, <<>>) >>),
      \* a rule file with "trigger_conditions": null
      Protocol("GERIATRIC", "EVALUABLE",
               << [Requirement("REQ_TRIGGER_CRITERIA", "MANDATORY", <<>>, <<>>, <<>>)
                      EXCEPT !.null_conditions = TRUE] >>),
      Protocol("HIP", "EVALUABLE",
               << Requirement("REQ_TIMING_CRITICAL", "CONDITIONAL", <<Key("ct_head")>>, <<>>,
                              <<>>) >>),
      Protocol("REFERENCE", "CONTEXT_ONLY",
               << Requirement("REQ_TRIGGER_CRITERIA", "MANDATORY", <<Key("tbi")>>, <<>>,
                              <<>>) >>) }

\* resources["ntds_rulesets"][eid]: rs.event and rs.contract
Ruleset(event_id, gates, exclusions, c) ==
    [event_id |-> event_id, event |-> [gates |-> gates, exclusions |-> exclusions],
     contract |-> c]

GateNamed(gate_id) == CHOOSE g \in GateMenu : g.gate_id = gate_id

BatchRulesetMenu ==
    { Ruleset(1, <<GateNamed("dx_documented"), GateNamed("onset_after_arrival")>>, <<>>,
              Contract({"YES", "NO", "EXCLUDED", "UNABLE_TO_DETERMINE"},
                       "UNABLE_TO_DETERMINE", NoEvidenceOptions)),
      \* the default token of this contract is no member of Outcome
      Ruleset(2, <<GateNamed("onset_after_arrival")>>, <<>>,
              Contract({"YES", "NO"}, "INDETERMINATE", [max_items_per_gate |-> 1])),
      Ruleset(3, <<GateNamed("dx_documented")>>,
              <<Exclusion("EXCL_POA", "exclude_if_any", <<"poa">>, <<>>)>>,
              Contract({"YES", "NO", "EXCLUDED", "UNABLE_TO_DETERMINE"},
                       "UNABLE_TO_DETERMINE", NoEvidenceOptions)) }

\* "for eid in sorted(ntds_rulesets.keys())": the rulesets in event-id order
SortedRulesets ==
    {s \in SeqsUpTo(BatchRulesetMenu, 0, MaxRulesets) :
        \A i \in 1..(Len(s) - 1) : s[i].event_id < s[i + 1].event_id}

InitPatient ==
    /\ protocols \in SeqsUpTo(BatchProtocolMenu, 0, MaxRulesets)
    /\ ntds_rulesets \in SortedRulesets
    /\ results = <<>>
    /\ ntds_results = <<>>
    /\ bpc = "protocols"
    /\ bk = 1
    /\ protocol_rules = [evaluation_mode |-> "EVALUABLE", requirements |-> <<>>]
    /\ protocol_contract = [evidence |-> [max_items_per_requirement |-> 2]]
    /\ protocol_patient \in {p \in ProtocolPatients :
                                /\ Len(p.evidence) <= BatchEvidence
                                /\ p.facts.arrival_time # NoTs}
    /\ pr = ProtocolResult
    /\ ppc = "idle"
    /\ ri = 1
    /\ prun = 0
    /\ pfirst = NoProtocolCall
    /\ event_rules = [gates |-> <<>>, exclusions |-> <<>>]
    /\ contract = Contract({"YES", "NO", "EXCLUDED", "UNABLE_TO_DETERMINE"},
                           "UNABLE_TO_DETERMINE", NoEvidenceOptions)
    /\ patient \in {p \in EventPatients :
                       /\ Len(p.evidence) <= BatchEvidence
                       /\ p.facts.arrival_time # NoTs}
    /\ r = EventResult
    /\ pc = "idle"
    /\ xi = 1
    /\ gi = 1
    /\ run = 0
    /\ first = NoCall
    /\ IdleCall

Evaluable == _get_evaluable_protocols(protocols)

\* "for proto in evaluable: try: result = evaluate_protocol(proto, ...)"
CallEvaluateProtocol ==
    /\ bpc = "protocols"
    /\ ppc = "idle"
    /\ bk <= Len(Evaluable)
    /\ protocol_rules' = Evaluable[bk]
    /\ ppc' = "start"
    /\ UNCHANGED <<protocol_contract, protocol_patient, pr, ri, prun, pfirst, event_vars,
                   batch_vars, call_vars>>

\* defect: an exception is not caught per protocol; the loop is abandoned
append_result_or_abort ==
    /\ bpc = "protocols"
    /\ ppc \in {"done", "raised"}
    /\ results' = IF ppc = "raised" THEN results
                  ELSE Append(results, ProtocolEntry(protocol_rules, [pc |-> ppc, r |-> pr]))
    /\ bk' = IF ppc = "raised" THEN Len(Evaluable) + 1 ELSE bk + 1
    /\ ppc' = "idle"
    /\ UNCHANGED <<protocol_rules, protocol_contract, protocol_patient, pr, ri, prun, pfirst,
                   event_vars, protocols, ntds_rulesets, ntds_results, bpc, call_vars>>

\* results.append({...}) in the try body or in the except branch
AppendResult ==
    /\ bpc = "protocols"
    /\ ppc \in {"done", "raised"}
    /\ results' = Append(results, ProtocolEntry(protocol_rules, [pc |-> ppc, r |-> pr]))
    /\ bk' = bk + 1
    /\ ppc' = "idle"
    /\ UNCHANGED <<protocol_rules, protocol_contract, protocol_patient, pr, ri, prun, pfirst,
                   event_vars, protocols, ntds_rulesets, ntds_results, bpc, call_vars>>

\* "ntds_results": _evaluate_ntds(...) once the protocol loop has ended;
\* "if not ntds_rulesets: return []"
CallEvaluateNtds ==
    /\ bpc = "protocols"
    /\ ppc = "idle"
    /\ bk > Len(Evaluable)
    /\ bpc' = IF ntds_rulesets = <<>> THEN "done" ELSE "ntds"
    /\ bk' = 1
    /\ UNCHANGED <<event_vars, protocol_vars, protocols, ntds_rulesets, results,
                   ntds_results, call_vars>>

\* "for eid in sorted(...): try: result = evaluate_event(rs.event, rs.contract, ...)"
CallEvaluateEvent ==
    /\ bpc = "ntds"
    /\ pc = "idle"
    /\ bk <= Len(ntds_rulesets)
    /\ event_rules' = ntds_rulesets[bk].event
    /\ contract' = ntds_rulesets[bk].contract
    /\ pc' = "start"
    /\ UNCHANGED <<patient, r, xi, gi, run, first, protocol_vars, batch_vars, call_vars>>

\* ntds_results.append({...}) in the try body or in the except branch
AppendNtdsResult ==
    /\ bpc = "ntds"
    /\ pc \in {"done", "raised"}
    /\ ntds_results' = Append(ntds_results,
                              EventEntry(ntds_rulesets[bk], [pc |-> pc, r |-> r]))
    /\ bk' = bk + 1
    /\ pc' = "idle"
    /\ UNCHANGED <<event_rules, contract, patient, r, xi, gi, run, first, protocol_vars,
                   protocols, ntds_rulesets, results, bpc, call_vars>>

\* "return ntds_results" and the return of evaluate_patient
ReturnPatient ==
    /\ bpc = "ntds"
    /\ pc = "idle"
    /\ bk > Len(ntds_rulesets)
    /\ bpc' = "done"
    /\ UNCHANGED <<event_vars, protocol_vars, protocols, ntds_rulesets, results,
                   ntds_results, bk, call_vars>>

NextPatient ==
    \/ CallEvaluateProtocol
    \/ BeginProtocol
    \/ EvaluateRequirement
    \/ ReturnCompliant
    \/ AppendResult
    \/ CallEvaluateNtds
    \/ CallEvaluateEvent
    \/ Begin
    \/ CheckExclusion
    \/ EvaluateGate
    \/ ReturnYes
    \/ AppendNtdsResult
    \/ ReturnPatient

SpecPatient == InitPatient /\ [][NextPatient]_vars

\* the entry a ruleset gets when it is evaluated on its own
ExpectedResult(k) ==
    ProtocolEntry(Evaluable[k],
                  evaluate_protocol(Evaluable[k], protocol_contract, protocol_patient))

ExpectedNtdsResult(k) ==
    EventEntry(ntds_rulesets[k],
               evaluate_event(ntds_rulesets[k].event, ntds_rulesets[k].contract, patient))

ProtocolRaises(k) ==
    evaluate_protocol(Evaluable[k], protocol_contract, protocol_patient).pc = "raised"

EventRaises(k) ==
    evaluate_event(ntds_rulesets[k].event, ntds_rulesets[k].contract, patient).pc = "raised"

\* C12: in the batch evaluation of one patient, a ruleset whose evaluation
\* raises gets an entry with outcome ERROR and the error message, the loop goes
\* on with the remaining rulesets, and each result list ends with exactly one
\* entry per evaluated ruleset, in ruleset order, every entry of a non-failing
\* ruleset being the one that ruleset yields when evaluated on its own.
C12_ErrorIsolated ==
    /\ \A k \in 1..Len(results) :
          /\ k <= Len(Evaluable)
          /\ results[k] = ExpectedResult(k)
          /\ ProtocolRaises(k) => results[k].outcome = "ERROR" /\ results[k].error # ""
          /\ ~ProtocolRaises(k) => results[k].outcome \in ProtocolOutcome
    /\ \A k \in 1..Len(ntds_results) :
          /\ k <= Len(ntds_rulesets)
          /\ ntds_results[k] = ExpectedNtdsResult(k)
          /\ EventRaises(k) => ntds_results[k].outcome = "ERROR" /\ ntds_results[k].error # ""
          /\ ~EventRaises(k) => ntds_results[k].outcome \in Outcome
    /\ bpc \in {"ntds", "done"} => Len(results) = Len(Evaluable)
    /\ bpc = "done" => Len(ntds_results) = Len(ntds_rulesets)

\* a patient whose first protocol and first event raise and whose second
\* protocol and second event are evaluated to the end, with evidence
C12_Witness ==
    /\ bpc = "done"
    /\ Len(results) = 2
    /\ results[1].outcome = "ERROR"
    /\ results[2].outcome \in ProtocolOutcome
    /\ results[2].step_trace # <<>>
    /\ results[2].step_trace[1].evidence_count > 0
    /\ Len(ntds_results) = 2
    /\ ntds_results[1].outcome = "ERROR"
    /\ ntds_results[2].outcome \in Outcome

----------------------------------------------------------------------------
(* One call of match_evidence, then of match_evidence_with_details, on the
   same arguments *)

NegatedHistorical(re) == [re |-> re, negated |-> TRUE, historical |-> TRUE]

MatchEvidenceMenu ==
    << Evidence("TRAUMA_HP", IsoTs(ArrivalMinute - DefaultWindowHours * MinutesPerHour - 1),
                Text(<<Plain("re_tbi")>>, <<>>, {})),
       Evidence("TRAUMA_HP", IsoTs(ArrivalMinute - DefaultWindowHours * MinutesPerHour),
                Text(<<Plain("re_tbi")>>, <<>>, {})),
       Evidence("ED_NOTE", NoTs,
                Text(<<Negated("re_tbi"), Plain("re_head_injury")>>, <<>>, {})),
       Evidence("IMAGING", BadTs,
                Text(<<Historical("re_tbi"), NegatedHistorical("re_head_injury")>>, <<>>, {})),
       Evidence("ED_NOTE", IsoTs(ArrivalMinute + MinutesPerHour),
                Text(<<Negated("re_tbi")>>, <<>>, {})),
       Evidence("IMAGING", IsoZTs(ArrivalMinute + MinutesPerHour),
                Text(<<Negated("re_tbi"), Plain("re_ct_head"), Plain("re_tbi")>>, <<>>, {})) >>

MatchPatients ==
    {ProtocolFacts(a, ev) : a \in {NoTs, BadTs, IsoTs(ArrivalMinute)},
                            ev \in Excerpts(MatchEvidenceMenu, MaxEvidence)}

\* "ghost" is no key of action_patterns; "unmapped" maps to the empty list
MatchArguments ==
    [patient : MatchPatients,
     pattern_key : {"tbi", "ct_head", "unmapped", "ghost"},
     allowed_sources : {<<>>, <<"ED_NOTE", "IMAGING">>},
     max_hits : 1..MaxEvidence,
     negation_aware : BOOLEAN,
     skip_historical : BOOLEAN,
     admission_window_hours : {0, DefaultWindowHours}]

InitMatch ==
    /\ args \in MatchArguments
    /\ ret = <<>>
    /\ fpc = "start"
    /\ IdleEvent
    /\ IdleProtocol
    /\ IdleBatch

CallMatchEvidence ==
    /\ fpc = "start"
    /\ ret' = [hits |-> protocol_match_evidence(
                            args.patient, args.pattern_key, args.allowed_sources,
                            args.max_hits, args.negation_aware, args.skip_historical,
                            args.admission_window_hours)]
    /\ fpc' = "matched"
    /\ UNCHANGED <<args, event_vars, protocol_vars, batch_vars>>

CallMatchEvidenceWithDetails ==
    /\ fpc = "matched"
    /\ ret' = [hits |-> ret.hits,
               detailed |-> match_evidence_with_details(
                                args.patient, args.pattern_key, args.allowed_sources,
                                args.max_hits, args.negation_aware, args.skip_historical,
                                args.admission_window_hours)]
    /\ fpc' = "detailed"
    /\ UNCHANGED <<args, event_vars, protocol_vars, batch_vars>>

NextMatch == CallMatchEvidence \/ CallMatchEvidenceWithDetails

SpecMatch == InitMatch /\ [][NextMatch]_vars

----------------------------------------------------------------------------
(* Properties of evaluate_event *)

DefaultMaxItems == 8

Gates == event_rules.gates
Exclusions == event_rules.exclusions
Trace == r.gate_trace
Returned == pc = "done"
InGateLoop == pc = "gates"

\* the result gate i's evaluator returns for this patient
Verdict(i) == EvalGateType(Gates[i], patient, contract)

\* some evidence block matches a query key of ex and, when ex requires
\* context, the same block matches one of the context keys
BlockExcludes(ex, e) ==
    /\ \E k \in 1..Len(ex.query_keys) : line_matches_any(patient, e.text, ex.query_keys[k])
    /\ \/ ex.require_context_keys = <<>>
       \/ \E j \in 1..Len(ex.require_context_keys) :
             line_matches_any(patient, e.text, ex.require_context_keys[j])

ExclusionMatches(ex) ==
    \E n \in 1..Len(patient.evidence) : BlockExcludes(ex, patient.evidence[n])

ActiveExclusion(i) ==
    Exclusions[i].gate_type = "exclude_if_any" /\ ExclusionMatches(Exclusions[i])

FirstActiveExclusion ==
    CHOOSE i \in 1..Len(Exclusions) :
        ActiveExclusion(i) /\ \A j \in 1..(i - 1) : ~ActiveExclusion(j)

C2_RequiredGateHalts ==
    \A i \in 1..Len(Trace) :
        (Gates[i].required /\ ~Trace[i].passed)
            => /\ Len(Trace) = i
               /\ Trace[i] = Verdict(i)
               /\ ~InGateLoop

C2_Witness ==
    /\ Returned
    /\ Trace # <<>>
    /\ Len(Trace) < Len(Gates)
    /\ Gates[Len(Trace)].required
    /\ ~Trace[Len(Trace)].passed
    /\ Gates[Len(Trace)].pass_outcome = ""

NoExclusionMatches == \A i \in 1..Len(Exclusions) : ~ActiveExclusion(i)

NoPassOutcomeGatePasses ==
    \A i \in 1..Len(Gates) : ~(Gates[i].pass_outcome # "" /\ Verdict(i).passed)

NoRequiredGateFails ==
    \A i \in 1..Len(Gates) : ~(Gates[i].required /\ ~Verdict(i).passed)

\* C4: with no matching exclusion, no passing pass_outcome gate and no failing
\* required gate, evaluate_event returns YES and gate_trace holds one entry per
\* declared gate in declared order.
C4_AllGatesThenYes ==
    (NoExclusionMatches /\ NoPassOutcomeGatePasses /\ NoRequiredGateFails)
        => /\ pc # "raised"
           /\ Returned =>
                /\ r.outcome = "YES"
                /\ Len(Trace) = Len(Gates)
                /\ \A i \in 1..Len(Gates) : Trace[i] = Verdict(i)

C4_Witness ==
    /\ Returned
    /\ r.outcome = "YES"
    /\ Len(Gates) >= 2
    /\ Len(Trace) = Len(Gates)
    /\ \E i \in 1..Len(Gates) : ~Trace[i].passed
    /\ Exclusions # <<>>

\* C6: for a contract whose outcomes.allowed is non-empty, the outcome of the
\* returned EventResult is a member of contract.outcomes.allowed.
C6_OutcomeAllowed ==
    (Returned /\ contract.allowed # {}) => r.outcome \in contract.allowed

\* C7: no evidence list of a GateResult or of the attached HardStop is longer
\* than contract.evidence.max_items_per_gate.
GateCap ==
    IF "max_items_per_gate" \in DOMAIN contract.evidence
    THEN contract.evidence.max_items_per_gate
    ELSE DefaultMaxItems

C7_EvidenceCap ==
    /\ \A i \in 1..Len(Trace) : Len(Trace[i].evidence) <= GateCap
    /\ Len(r.hard_stop.evidence) <= GateCap

C7_Witness ==
    /\ Returned
    /\ \E i \in 1..Len(Trace) :
          /\ Gates[i].gate_type = "evidence_any"
          /\ Len(AllKeyHits(Gates[i], patient)) > GateCap
          /\ Len(Trace[i].evidence) = GateCap

----------------------------------------------------------------------------
(* Properties of evaluate_protocol *)

Requirements == protocol_rules.requirements
Steps == pr.step_trace
ProtocolReturned == ppc = "done"

\* the requirement id selects one of the three evaluators
KnownKind(req) ==
    IdContains(req.id, "TRIGGER") \/ IdContains(req.id, "DATA") \/ IdContains(req.id, "TIMING")

\* a requirement whose failure ends the evaluation
HaltsOnFailure(req) == req.requirement_type \in {"MANDATORY", "CONDITIONAL"}

\* the requirement that produced step k: the k-th requirement of a known kind
Owner(k) ==
    CHOOSE i \in 1..Len(Requirements) :
        /\ KnownKind(Requirements[i])
        /\ Cardinality({j \in 1..i : KnownKind(Requirements[j])}) = k

\* C5: when evaluate_event returns YES, or evaluate_protocol returns COMPLIANT,
\* for a ruleset that declares at least one required gate, some required gate
\* in the returned trace has passed = true and a non-empty evidence list.
C5_AffirmativeHasEvidence ==
    /\ (Returned /\ r.outcome = "YES" /\ \E i \in 1..Len(Gates) : Gates[i].required)
          => \E i \in 1..Len(Trace) :
                Gates[i].required /\ Trace[i].passed /\ Trace[i].evidence # <<>>
    /\ (/\ ProtocolReturned
        /\ pr.outcome = "COMPLIANT"
        /\ \E i \in 1..Len(Requirements) : HaltsOnFailure(Requirements[i]))
          => \E k \in 1..Len(Steps) :
                /\ HaltsOnFailure(Requirements[Owner(k)])
                /\ Steps[k].passed
                /\ Steps[k].evidence # <<>>

DefaultMaxItemsPerRequirement == 8

\* C8 as stated: no StepResult.evidence list of step_trace is longer than
\* contract.evidence.max_items_per_gate.
PerGateOption ==
    IF "max_items_per_gate" \in DOMAIN protocol_contract.evidence
    THEN protocol_contract.evidence.max_items_per_gate
    ELSE DefaultMaxItems

RequirementCap ==
    IF "max_items_per_requirement" \in DOMAIN protocol_contract.evidence
    THEN protocol_contract.evidence.max_items_per_requirement
    ELSE DefaultMaxItemsPerRequirement

TriggerFirstFails ==
    /\ ProtocolReturned
    /\ Requirements # <<>>
    /\ IdContains(Requirements[1].id, "TRIGGER")
    /\ Steps # <<>>
    /\ ~Steps[1].passed

----------------------------------------------------------------------------
(* Unrecognised gate and requirement kinds *)

GateTypes == {"evidence_any", "timing_after_arrival", "requires_treatment_any"}

\* every gate of unknown gate_type that the loop has passed has its own
\* failing entry in gate_trace, whose reason names the unknown kind
UnknownGateRecorded ==
    \A i \in 1..Len(Gates) :
        (Gates[i].gate_type \notin GateTypes /\ i <= Len(Trace)) =>
            /\ Trace[i].gate = Gates[i].gate_id
            /\ ~Trace[i].passed
            /\ Trace[i].reason = "Unknown gate_type"

\* every requirement of unrecognised id that the loop has passed has a
\* failing entry in step_trace
UnknownRequirementRecorded ==
    \A k \in 1..Len(Requirements) :
        (/\ ppc \in {"requirements", "done"}
         /\ protocol_rules.evaluation_mode = "EVALUABLE"
         /\ ~KnownKind(Requirements[k])
         /\ (k < ri \/ (ppc = "done" /\ pr.outcome = "COMPLIANT"))) =>
            \E n \in 1..Len(Steps) :
                /\ Steps[n].requirement_id = Requirements[k].id
                /\ ~Steps[n].passed

\* C11 (as stated): a gate of unknown gate_type and a requirement whose id
\* matches none of TRIGGER, DATA, TIMING never raise and are never silently
\* ignored: each is recorded in the trace as a failing result whose reason
\* names the unknown kind.
C11_UnknownKindRecorded ==
    /\ UnknownGateRecorded
    /\ UnknownRequirementRecorded

----------------------------------------------------------------------------
(* Properties of match_evidence *)

Matched == fpc \in {"matched", "detailed"}

\* the regexes the key resolves to
KeyRegexes ==
    IF args.pattern_key \in DOMAIN args.patient.facts.action_patterns
    THEN {args.patient.facts.action_patterns[args.pattern_key][k] :
             k \in 1..Len(args.patient.facts.action_patterns[args.pattern_key])}
    ELSE {}

SourceAllowed(e) ==
    args.allowed_sources = <<>>
        \/ \E k \in 1..Len(args.allowed_sources) : args.allowed_sources[k] = e.source_type

\* both timestamps parse and the block lies more than the window before arrival
Stale(e) ==
    /\ args.admission_window_hours > 0
    /\ parse_datetime(args.patient.facts.arrival_time).ok
    /\ parse_datetime(e.timestamp).ok
    /\ parse_datetime(args.patient.facts.arrival_time).t - parse_datetime(e.timestamp).t
           > args.admission_window_hours * MinutesPerHour

\* an occurrence of a regex of the key that is skipped neither as negated nor
\* as historical
HasQualifyingOccurrence(e) ==
    \E i \in 1..Len(e.text.occ) :
        /\ e.text.occ[i].re \in KeyRegexes
        /\ ~(args.negation_aware /\ e.text.occ[i].negated)
        /\ ~(args.skip_historical /\ e.text.occ[i].historical)

\* positions of the blocks match_evidence is to return, before truncation
Eligible ==
    {n \in 1..Len(args.patient.evidence) :
        /\ SourceAllowed(args.patient.evidence[n])
        /\ ~Stale(args.patient.evidence[n])
        /\ HasQualifyingOccurrence(args.patient.evidence[n])}

\* the k-th eligible position
NthEligible(k) == CHOOSE n \in Eligible : Cardinality({m \in Eligible : m <= n}) = k

\* C13: match_evidence returns exactly the first max_hits blocks, in evidence
\* order and without repetition, that pass the source restriction and the
\* admission-window filter and hold an occurrence of a regex of the key that is
\* not skipped as negated or historical; a block whose occurrences are all
\* skipped is not returned and an unresolved key yields the empty list.
C13_FirstQualifyingBlocks ==
    Matched =>
        /\ Len(ret.hits) = IF Cardinality(Eligible) < args.max_hits
                           THEN Cardinality(Eligible) ELSE args.max_hits
        /\ \A k \in 1..Len(ret.hits) : ret.hits[k] = args.patient.evidence[NthEligible(k)]
        /\ KeyRegexes = {} => ret.hits = <<>>

\* two blocks qualify, the first through a later occurrence than a skipped one,
\* and max_hits keeps only the first
C13_Witness ==
    /\ Matched
    /\ args.max_hits = 1
    /\ Cardinality(Eligible) = 2
    /\ Len(ret.hits) = 1
    /\ args.negation_aware
    /\ ret.hits[1].text.occ[1].negated
    /\ ret.hits[1].pointer = 1

\* ret.detailed is the (hits, details) pair of match_evidence_with_details
Detailed == fpc = "detailed"

\* C14 (as stated): for every patient, pattern key (keys with several regexes
\* included) and flag combination, match_evidence_with_details returns the
\* evidence list of match_evidence on the same arguments, with exactly one
\* MatchDetail per returned block, that of an accepted occurrence.
C14_DetailsAgree ==
    Detailed =>
        /\ ret.detailed.hits = ret.hits
        /\ Len(ret.detailed.details) = Len(ret.detailed.hits)
        /\ \A n \in 1..Len(ret.detailed.details) :
              LET d == ret.detailed.details[n]
                  o == ret.detailed.hits[n].text.occ[d.matched]
              IN  /\ d.pointer = ret.detailed.hits[n].pointer
                  /\ o.re \in KeyRegexes
                  /\ ~(args.negation_aware /\ o.negated)
                  /\ ~(args.skip_historical /\ o.historical)

\* the same statement for the keys that map to one regex
SingleRegexDetailsAgree == Cardinality(KeyRegexes) <= 1 => C14_DetailsAgree

\* how long before arrival the block is stamped, when both timestamps parse
BothParse(e) ==
    parse_datetime(args.patient.facts.arrival_time).ok /\ parse_datetime(e.timestamp).ok

MinutesBeforeArrival(e) ==
    parse_datetime(args.patient.facts.arrival_time).t - parse_datetime(e.timestamp).t

\* the block would be returned if there were no admission window
QualifiesWithoutWindow(e) == SourceAllowed(e) /\ HasQualifyingOccurrence(e)

InHits(e) == \E k \in 1..Len(ret.hits) : ret.hits[k] = e

\* C15: with admission_window_hours > 0, match_evidence never returns a block
\* whose timestamp and the arrival time both parse and that is stamped more than
\* admission_window_hours before arrival; a block stamped exactly
\* admission_window_hours before arrival, a block whose timestamp is missing or
\* unparseable, and any block when the arrival time is absent or unparseable,
\* are not removed by the window.
C15_AdmissionWindow ==
    (Matched /\ args.admission_window_hours > 0) =>
        /\ \A k \in 1..Len(ret.hits) :
              ~(/\ BothParse(ret.hits[k])
                /\ MinutesBeforeArrival(ret.hits[k])
                       > args.admission_window_hours * MinutesPerHour)
        /\ \A n \in 1..Len(args.patient.evidence) :
              LET e == args.patient.evidence[n]
              IN  (/\ QualifiesWithoutWindow(e)
                   /\ Len(ret.hits) < args.max_hits
                   /\ \/ ~BothParse(e)
                      \/ MinutesBeforeArrival(e)
                             <= args.admission_window_hours * MinutesPerHour)
                  => InHits(e)

\* a record with a block one minute beyond the window, which is dropped, and a
\* block exactly on the window's edge, which is returned
C15_Witness ==
    /\ Matched
    /\ args.admission_window_hours = DefaultWindowHours
    /\ Len(args.patient.evidence) = 2
    /\ BothParse(args.patient.evidence[1])
    /\ MinutesBeforeArrival(args.patient.evidence[1])
           = DefaultWindowHours * MinutesPerHour + 1
    /\ QualifiesWithoutWindow(args.patient.evidence[1])
    /\ MinutesBeforeArrival(args.patient.evidence[2]) = DefaultWindowHours * MinutesPerHour
    /\ ret.hits = <<args.patient.evidence[2]>>

----------------------------------------------------------------------------
(* Evidence text, character by character.

   A text is a sequence of atoms, each a lower-cased substring of the
   note; Width is the atom's length in characters, so the windows of the
   two classifiers are measured in characters as the code measures them.
   An occurrence of a pattern is one atom of Findings, and its span is
   (Offset(t, i), Offset(t, i + 1)).  No cue, marker or header of the
   vocabulary arises from parts of two atoms, and no part of an atom cut
   by a window is itself a cue or a marker. *)

NL == "\n"

LongClause == "with mild swelling of the left ankle"

\* stretches of unremarkable prose, free of markers, cues and breakers
Prose100 == "<100 characters of hospital course>"
Prose400 == "<400 characters of hospital course>"

Findings == {"dislocation", "femur fracture"}

\* len(atom)
Width(a) ==
    CASE a = "no evidence of" -> 14
      [] a = "no sign of" -> 10
      [] a = "no signs of" -> 11
      [] a = "no acute" -> 8
      [] a = "no new" -> 6
      [] a = "no significant" -> 14
      [] a = "no obvious" -> 10
      [] a = "no gross" -> 8
      [] a = "negative for" -> 12
      [] a = "rule out" -> 8
      [] a = "ruled out" -> 9
      [] a = "rules out" -> 9
      [] a = "failed to reveal" -> 16
      [] a = "failed to show" -> 14
      [] a = "failed to demonstrate" -> 21
      [] a = "unremarkable for" -> 16
      [] a = "free of" -> 7
      [] a = "without" -> 7
      [] a = "denies" -> 6
      [] a = "no" -> 2
      [] a = "not" -> 3
      [] a = "absent" -> 6
      [] a = "never" -> 5
      [] a = "not seen" -> 8
      [] a = "unlikely" -> 8
      [] a = "not elevated" -> 12
      [] a = "but" -> 3
      [] a = "however" -> 7
      [] a = "although" -> 8
      [] a = "except" -> 6
      [] a = "is present" -> 10
      [] a = "dislocation" -> 11
      [] a = "femur fracture" -> 14
      [] a = "with mild swelling of the left ankle" -> 36
      [] a = "past surgical history:" -> 22
      [] a = "assessment:" -> 11
      [] a = "s/p" -> 3
      [] a = "repair" -> 6
      [] a = "2 years ago" -> 11
      [] a = "underwent" -> 9
      [] a = " " -> 1
      [] a = ", " -> 2
      [] a = ". " -> 2
      [] a = NL -> 1
      [] a = Prose100 -> 100
      [] a = Prose400 -> 400

\* text[:start of atom i], counted in characters
RECURSIVE Offset(_, _)
Offset(t, i) == IF i <= 1 THEN 0 ELSE Offset(t, i - 1) + Width(t[i - 1])

\* len(text)
TextLength(t) == Offset(t, Len(t) + 1)

Highest(S) == CHOOSE x \in S : \A y \in S : y <= x
Lowest(S) == CHOOSE x \in S : \A y \in S : x <= y

\* one string for every alternative of every regex of _PRE_NEGATION_CUES
_PRE_NEGATION_CUES ==
    {"no evidence of", "no sign of", "no signs of", "no acute",
     "no new", "no significant", "no obvious", "no gross",
     "negative for", "rule out", "ruled out", "rules out",
     "failed to reveal", "failed to show",
     "failed to demonstrate", "unremarkable for", "free of",
     "without", "denies", "no", "not", "absent", "never"}

\* instances of _POST_NEGATION_CUES
_POST_NEGATION_CUES == {"not seen", "absent", "unlikely", "not elevated"}

\* cue.search(atom) for some cue of _PRE_NEGATION_COMPILED:
\* "not seen" and "not elevated" contain the word "not"
MatchesPreCue(a) == a \in _PRE_NEGATION_CUES \cup {"not seen", "not elevated"}

\* cue.search(atom) for some cue of _POST_NEGATION_COMPILED
MatchesPostCue(a) == a \in _POST_NEGATION_CUES

\* the atoms holding a character of _SCOPE_BREAKER_CHARS (their first one)
HasBreakerChar(a) == a \in {". ", NL}

\* the words of _SCOPE_BREAKER_PHRASES, which wraps each in two spaces
_SCOPE_BREAKER_PHRASES == <<"but", "however", "although", "except">>

EndsWithSpace(a) == a \in {" ", ", ", ". "}
StartsWithSpace(a) == a = " "

\* the text holds " <word> " around atom j
PhraseAt(t, j, word) ==
    /\ t[j] = word
    /\ j > 1 /\ EndsWithSpace(t[j - 1])
    /\ j < Len(t) /\ StartsWithSpace(t[j + 1])

_PRE_NEGATION_WINDOW == 30
_POST_NEGATION_WINDOW == 20

AtLeast(a, b) == IF a >= b THEN a ELSE b
AtMost(a, b) == IF a <= b THEN a ELSE b

\* for i, ch in enumerate(pre_text): if ch in _SCOPE_BREAKER_CHARS
LastBreakerChar(t, i, pre_start) ==
    LET at == {Offset(t, j) - pre_start :
                  j \in {k \in 1..(i - 1) : /\ HasBreakerChar(t[k])
                                            /\ Offset(t, k) >= pre_start}}
    IN  IF at = {} THEN -1 ELSE Highest(at)

\* for phrase in _SCOPE_BREAKER_PHRASES: pos = pre_text.rfind(phrase)
RECURSIVE PrePhraseLoop(_, _, _, _, _)
PrePhraseLoop(t, i, pre_start, k, last_break) ==
    IF k > Len(_SCOPE_BREAKER_PHRASES) THEN last_break
    ELSE LET word == _SCOPE_BREAKER_PHRASES[k]
             found == {Offset(t, j) - 1 - pre_start :
                          j \in {m \in 2..(i - 2) :
                                    /\ PhraseAt(t, m, word)
                                    /\ Offset(t, m) - 1 >= pre_start}}
             pos == IF found = {} THEN -1 ELSE Highest(found)
         IN  PrePhraseLoop(t, i, pre_start, k + 1,
                           IF pos >= 0 /\ pos > last_break
                           THEN pos + (Width(word) + 2) - 1
                           ELSE last_break)

\* the pre-negation half: a cue in what is left of pre_text
PreNegated(t, i) ==
    LET match_start == Offset(t, i)
        pre_start == AtLeast(0, match_start - _PRE_NEGATION_WINDOW)
        last_break == PrePhraseLoop(t, i, pre_start, 1,
                                    LastBreakerChar(t, i, pre_start))
        clause_start == IF last_break >= 0 THEN pre_start + last_break + 1
                        ELSE pre_start
    IN  \E j \in 1..(i - 1) : MatchesPreCue(t[j]) /\ Offset(t, j) >= clause_start

\* for i, ch in enumerate(post_text): ... first_break = i; break
FirstBreakerChar(t, i, post_end) ==
    LET match_end == Offset(t, i + 1)
        at == {Offset(t, j) - match_end :
                  j \in {k \in (i + 1)..Len(t) : /\ HasBreakerChar(t[k])
                                                /\ Offset(t, k) < post_end}}
    IN  IF at = {} THEN post_end - match_end ELSE Lowest(at)

\* for phrase in _SCOPE_BREAKER_PHRASES: pos = post_text.find(phrase)
RECURSIVE PostPhraseLoop(_, _, _, _, _)
PostPhraseLoop(t, i, post_end, k, first_break) ==
    IF k > Len(_SCOPE_BREAKER_PHRASES) THEN first_break
    ELSE LET word == _SCOPE_BREAKER_PHRASES[k]
             match_end == Offset(t, i + 1)
             found == {Offset(t, j) - 1 - match_end :
                          j \in {m \in (i + 2)..(Len(t) - 1) :
                                    /\ PhraseAt(t, m, word)
                                    /\ Offset(t, m + 1) + 1 <= post_end}}
             pos == IF found = {} THEN -1 ELSE Lowest(found)
         IN  PostPhraseLoop(t, i, post_end, k + 1,
                            IF pos >= 0 /\ pos < first_break THEN pos
                            ELSE first_break)

\* the post-negation half: a cue in what is left of post_text
PostNegated(t, i) ==
    LET match_end == Offset(t, i + 1)
        post_end == AtMost(TextLength(t), match_end + _POST_NEGATION_WINDOW)
        first_break == PostPhraseLoop(t, i, post_end, 1,
                                      FirstBreakerChar(t, i, post_end))
    IN  \E j \in (i + 1)..Len(t) :
            MatchesPostCue(t[j]) /\ Offset(t, j + 1) <= match_end + first_break

\* a classifier that looks only after the occurrence
is_negated_looking_forward_only(t, i) == PostNegated(t, i)

_is_negated(t, i) == PreNegated(t, i) \/ PostNegated(t, i)

\* context_window, and the reach of the inline markers
ContextWindow == 400
CloseWindow == 100

\* where the atom holds an entry of section_markers: "past surgical
\* history:" holds "past surgical history" and, 5 characters in,
\* "surgical history:"
SectionMarkerOffsets(a) == IF a = "past surgical history:" THEN {0, 5} ELSE {}

\* the atoms that begin with an entry of current_sections, less its "\n"
CurrentSections == {"assessment:"}

\* "\n<header>" starts at atom k
HeaderAt(t, k) == t[k] = NL /\ k < Len(t) /\ t[k + 1] \in CurrentSections

\* for marker in section_markers: the last occurrence of the marker in
\* context_before, and no entry of current_sections after it
InHistorySection(t, i) ==
    LET ctx_start == AtLeast(0, Offset(t, i) - ContextWindow)
    IN  \E o \in {0, 5} :
            LET seen == {j \in 1..(i - 1) :
                            /\ o \in SectionMarkerOffsets(t[j])
                            /\ Offset(t, j) + o >= ctx_start}
            IN  /\ seen # {}
                /\ ~ \E k \in Highest(seen)..(i - 2) : HeaderAt(t, k)

\* atom j lies whole in close_before or in close_after
InCloseContext(t, i, j) ==
    \/ j < i /\ Offset(t, j) >= AtLeast(0, Offset(t, i) - CloseWindow)
    \/ j > i /\ Offset(t, j + 1) <= AtMost(TextLength(t), Offset(t, i + 1) + CloseWindow)

\* for marker in inline_markers: "s/p " in close_before
InlineMarked(t, i) ==
    \E j \in 1..(i - 2) :
        t[j] = "s/p" /\ StartsWithSpace(t[j + 1]) /\ InCloseContext(t, i, j)

\* \d+\s+(months?|years?|weeks?)\s+ago in close_before + close_after
RelativeDated(t, i) ==
    \E j \in 1..Len(t) : t[j] = "2 years ago" /\ InCloseContext(t, i, j)

\* \b(underwent|...)\b.*\b(...|repair|...)\b in close_before + close_after;
\* "." stops at a newline
PastProcedure(t, i) ==
    \E j, k \in 1..Len(t) :
        /\ j < k /\ t[j] = "underwent" /\ t[k] = "repair"
        /\ InCloseContext(t, i, j) /\ InCloseContext(t, i, k)
        /\ \A m \in (j + 1)..(k - 1) : t[m] # NL

_is_match_in_historical_context(t, i) ==
    \/ InHistorySection(t, i)
    \/ InlineMarked(t, i)
    \/ RelativeDated(t, i)
    \/ PastProcedure(t, i)

\* the regex a finding is matched by
FindingRegex(a) == IF a = "dislocation" THEN "re_dislocation" ELSE "re_femur_fracture"

\* regex.finditer(text), each match with what the two classifiers say of it
RECURSIVE Scan(_, _)
Scan(t, i) ==
    IF i > Len(t) THEN <<>>
    ELSE (IF t[i] \in Findings
          THEN << [re |-> FindingRegex(t[i]),
                   negated |-> _is_negated(t, i),
                   historical |-> _is_match_in_historical_context(t, i)] >>
          ELSE <<>>)
         \o Scan(t, i + 1)

FindingPatterns ==
    [dislocation |-> <<"re_dislocation">>, femur_fracture |-> <<"re_femur_fracture">>]

FindingKey(a) == IF a = "dislocation" THEN "dislocation" ELSE "femur_fracture"

\* a record whose single note holds the text
Note(t) ==
    [facts |-> [arrival_time |-> NoTs, action_patterns |-> FindingPatterns],
     evidence |-> Located(<< Evidence("PHYSICIAN_NOTE", NoTs, Text(Scan(t, 1), <<>>, {})) >>)]

----------------------------------------------------------------------------
(* One classification of one occurrence: _is_negated, then
   _is_match_in_historical_context, then match_evidence over a record
   whose single note holds the text *)

MaxContext == 2

\* a word and what separates it from the next
PreItems ==
    {<<word, sep>> : word \in {"no", "however", "but", LongClause},
                     sep \in {" ", ", ", ". ", NL}}

RECURSIVE PreContexts(_)
PreContexts(n) ==
    IF n = 0 THEN {<<>>}
    ELSE LET shorter == PreContexts(n - 1)
         IN  shorter \cup {c \o item : c \in shorter, item \in PreItems}

PostContexts ==
    { <<>>,
      <<" ", "not seen">>, <<", ", "not seen">>, <<". ", "not seen">>, <<NL, "not seen">>,
      <<" ", "is present">>,
      <<" ", "is present", " ", "unlikely">>,
      <<" ", "is present", ", ", "unlikely">>,
      <<" ", "is present", " ", "but", " ", "not seen">>,
      <<" ", "but", " ", "absent">>,
      <<", ", "but", " ", "absent">>,
      <<", ", "however", ", ", "absent">>,
      <<" ", "although", " ", "not elevated">> }

\* one occurrence with up to MaxContext words before it
NegationTexts ==
    {pre \o <<"dislocation">> \o post : pre \in PreContexts(MaxContext),
                                         post \in PostContexts}

\* "<cue> <finding>" and "<finding> is present"
CueTexts ==
    {<<cue, " ", f>> : cue \in _PRE_NEGATION_CUES, f \in Findings}
    \cup {<<f, " ", "is present">> : f \in Findings}

\* what a history section says after its heading
HistoryBodies ==
    { <<"femur fracture", " ", "repair">>,
      <<"s/p", " ", "femur fracture", " ", "repair">>,
      <<"femur fracture", " ", "repair", " ", "2 years ago">>,
      <<"underwent", " ", "femur fracture", " ", "repair">>,
      <<"s/p", " ", "femur fracture", " ", "repair", ". ", Prose100>>,
      <<"femur fracture", " ", "repair", ". ", Prose400>> }

\* how the note goes on: a header on a new line, the same word in the
\* running line, or no header at all
Continuations ==
    { <<NL, "assessment:", " ">>, <<". ", "assessment:", " ">>, <<NL>>, <<". ">> }

\* a history section, then the same phrase again
HistoryTexts ==
    {<<"past surgical history:", " ">> \o body \o continuation \o <<"femur fracture">> :
        body \in HistoryBodies, continuation \in Continuations}

ClinicalTexts == NegationTexts \cup CueTexts \cup HistoryTexts

TextArguments ==
    UNION {{[text |-> t, span |-> i] : i \in {k \in 1..Len(t) : t[k] \in Findings}} :
              t \in ClinicalTexts}

InitText ==
    /\ args \in TextArguments
    /\ ret = <<>>
    /\ fpc = "text"
    /\ IdleEvent
    /\ IdleProtocol
    /\ IdleBatch

CallIsNegated ==
    /\ fpc = "text"
    /\ ret' = [negated |-> _is_negated(args.text, args.span)]
    /\ fpc' = "negation"
    /\ UNCHANGED <<args, event_vars, protocol_vars, batch_vars>>

CallIsMatchInHistoricalContext ==
    /\ fpc = "negation"
    /\ ret' = [negated |-> ret.negated,
               historical |-> _is_match_in_historical_context(args.text, args.span)]
    /\ fpc' = "context"
    /\ UNCHANGED <<args, event_vars, protocol_vars, batch_vars>>

\* match_evidence as the trigger and timing evaluators call it
CallMatchEvidenceOnNote ==
    /\ fpc = "context"
    /\ ret' = [negated |-> ret.negated,
               historical |-> ret.historical,
               hits |-> protocol_match_evidence(
                            Note(args.text), FindingKey(args.text[args.span]), <<>>,
                            MatchMaxHits, TRUE, TRUE, DefaultWindowHours)]
    /\ fpc' = "scanned"
    /\ UNCHANGED <<args, event_vars, protocol_vars, batch_vars>>

NextText == CallIsNegated \/ CallIsMatchInHistoricalContext \/ CallMatchEvidenceOnNote

SpecText == InitText /\ [][NextText]_vars

----------------------------------------------------------------------------
(* Properties of _is_negated *)

Classified == fpc \in {"negation", "context", "scanned"}

ConjunctionWords == {_SCOPE_BREAKER_PHRASES[k] : k \in 1..Len(_SCOPE_BREAKER_PHRASES)}

\* atom j is a cue on its side of the occurrence at i, inside the window
CueWithinWindow(t, i, j) ==
    \/ /\ j < i /\ MatchesPreCue(t[j])
       /\ Offset(t, i) - Offset(t, j) <= _PRE_NEGATION_WINDOW
    \/ /\ j > i /\ MatchesPostCue(t[j])
       /\ Offset(t, j + 1) - Offset(t, i + 1) <= _POST_NEGATION_WINDOW

Between(i, j) == IF j < i THEN (j + 1)..(i - 1) ELSE (i + 1)..(j - 1)

\* C16: _is_negated answers true only when a cue stands within 30
\* characters before or 20 characters after the occurrence with no scope
\* breaker between the two: none of . ; ! ? or newline, and none of the
\* conjunctions but, however, although, except.
C16_NegationStaysInClause ==
    (Classified /\ ret.negated) =>
        \E j \in 1..Len(args.text) :
            /\ CueWithinWindow(args.text, args.span, j)
            /\ \A m \in Between(args.span, j) :
                  /\ ~ HasBreakerChar(args.text[m])
                  /\ args.text[m] \notin ConjunctionWords

\* the same with a conjunction counted only where a space stands on both
\* sides of it
NegationStaysInSpacedClause ==
    (Classified /\ ret.negated) =>
        \E j \in 1..Len(args.text) :
            /\ CueWithinWindow(args.text, args.span, j)
            /\ \A m \in Between(args.span, j) :
                  /\ ~ HasBreakerChar(args.text[m])
                  /\ ~ \E k \in 1..Len(_SCOPE_BREAKER_PHRASES) :
                         PhraseAt(args.text, m, _SCOPE_BREAKER_PHRASES[k])

\* the text is "<cue> <finding>" and the occurrence is the finding
CueBeforeFinding ==
    /\ Len(args.text) = 3 /\ args.span = 3
    /\ args.text[1] \in _PRE_NEGATION_CUES
    /\ args.text[2] = " "

\* the text is "<finding> is present"
FindingIsPresent ==
    /\ Len(args.text) = 3 /\ args.span = 1
    /\ args.text[2] = " " /\ args.text[3] = "is present"

\* C17: for every cue of the pre-negation list and every finding,
\* _is_negated answers true for the finding of "<cue> <finding>" and a
\* negation-aware match_evidence does not return the block that holds
\* nothing else; it answers false for the finding of "<finding> is present".
C17_CueSuppressesFinding ==
    /\ (Classified /\ CueBeforeFinding) => ret.negated
    /\ (fpc = "scanned" /\ CueBeforeFinding) => ret.hits = <<>>
    /\ (Classified /\ FindingIsPresent) => ~ ret.negated

C17_Witness ==
    /\ fpc = "scanned"
    /\ args.text = <<"failed to demonstrate", " ", "femur fracture">>
    /\ args.span = 3
    /\ ret.negated
    /\ ret.hits = <<>>

----------------------------------------------------------------------------
(* Properties of _is_match_in_historical_context *)

Contextualised == fpc \in {"context", "scanned"}

\* atom j is a historical section marker that begins within 400
\* characters before the occurrence at i, and no header word stands
\* between the two
FollowsSectionMarker(t, i, j) ==
    /\ j < i /\ SectionMarkerOffsets(t[j]) # {}
    /\ Offset(t, i) - Offset(t, j) <= ContextWindow
    /\ \A m \in (j + 1)..(i - 1) : t[m] \notin CurrentSections

\* the occurrence at i stands under a header that opens a line at atom k,
\* after a history section that holds the same phrase
UnderCurrentHeader(t, i, k) ==
    /\ HeaderAt(t, k) /\ k + 1 < i
    /\ \A m \in (k + 2)..(i - 1) : SectionMarkerOffsets(t[m]) = {}
    /\ \E j \in 1..(k - 1) : SectionMarkerOffsets(t[j]) # {}
    /\ \E j \in 1..(k - 1) : t[j] = t[i]

\* C18: an occurrence that follows a historical section marker within 400
\* characters with no current-context header between the two is classified
\* historical; the same phrase occurring later in the document under a
\* current-context header is not classified historical, and match_evidence
\* returns the block, whatever the history section says.
C18_HistoricalBySection ==
    Contextualised =>
        /\ (\E j \in 1..Len(args.text) : FollowsSectionMarker(args.text, args.span, j))
               => ret.historical
        /\ (\E k \in 1..Len(args.text) : UnderCurrentHeader(args.text, args.span, k))
               => /\ ~ ret.historical
                  /\ fpc = "scanned" => ret.hits # <<>>

\* the same, for occurrences with no inline marker, relative date or
\* past-tense procedure within 100 characters
HistoricalBySectionAwayFromInlineMarkers ==
    (/\ Contextualised
     /\ ~ InlineMarked(args.text, args.span)
     /\ ~ RelativeDated(args.text, args.span)
     /\ ~ PastProcedure(args.text, args.span)) =>
        /\ (\E j \in 1..Len(args.text) : FollowsSectionMarker(args.text, args.span, j))
               => ret.historical
        /\ (\E k \in 1..Len(args.text) : UnderCurrentHeader(args.text, args.span, k))
               => /\ ~ ret.historical
                  /\ fpc = "scanned" => ret.hits # <<>>

----------------------------------------------------------------------------
(* One condition under each evaluator: eval_trigger_criteria,
   eval_required_data_elements, eval_timing_critical over a requirement
   whose single condition is the pattern key, then
   _evaluate_temporal_condition for the key *)

DayAfter == ArrivalMinute + DefaultWindowHours * MinutesPerHour

ConditionEvidenceMenu ==
    << Evidence("IMAGING", IsoTs(DayAfter + 1), Text(<<Plain("re_ct_head")>>, <<>>, {})),
       Evidence("IMAGING", IsoTs(DayAfter), Text(<<Plain("re_ct_head")>>, <<>>, {})),
       Evidence("ED_NOTE", IsoTs(ArrivalMinute - 1), Text(<<Plain("re_ct_head")>>, <<>>, {})),
       Evidence("IMAGING", IsoZTs(ArrivalMinute), Text(<<Plain("re_ct_head")>>, <<>>, {})),
       Evidence("ED_NOTE", IsoTs(ArrivalMinute + MinutesPerHour),
                Text(<<Negated("re_ct_head")>>, <<>>, {})),
       Evidence("TRAUMA_HP", NoTs, Text(<<Negated("re_head_injury")>>, <<>>, {})),
       Evidence("ED_NOTE", IsoTs(ArrivalMinute + 65), Text(<<Historical("re_tbi")>>, <<>>, {})),
       Evidence("IMAGING", BadTs, Text(<<NegatedHistorical("re_ct_head")>>, <<>>, {})),
       Evidence("ED_NOTE", IsoTs(ArrivalMinute + 66), Text(<<Plain("re_tbi")>>, <<>>, {})),
       Evidence("ED_NOTE", NoTs, Text(<<Negated("re_tbi")>>, <<>>, {})) >>

ConditionPatients ==
    {ProtocolFacts(a, ev) : a \in {NoTs, BadTs, IsoTs(ArrivalMinute)},
                            ev \in Excerpts(ConditionEvidenceMenu, MaxEvidence)}

\* within: the N and the unit of "temporal:within:N:unit:key"
ConditionArguments ==
    [patient : ConditionPatients,
     pattern_key : {"tbi", "ct_head"},
     acceptable_evidence : {<<>>, <<"ED_NOTE", "IMAGING">>},
     max_items : 1..MaxEvidence,
     within : {<<"24", "hours">>, <<"65", "minutes">>}]

InitCondition ==
    /\ args \in ConditionArguments
    /\ ret = <<>>
    /\ fpc = "condition"
    /\ IdleEvent
    /\ IdleProtocol
    /\ IdleBatch

\* contract["evidence"]["max_items_per_requirement"]
ConditionContract == [evidence |-> [max_items_per_requirement |-> args.max_items]]

ConditionRequirement(id, requirement_type) ==
    Requirement(id, requirement_type, <<Key(args.pattern_key)>>,
                args.acceptable_evidence, <<>>)

TemporalCondition ==
    Condition(<<"temporal", "within", args.within[1], args.within[2], args.pattern_key>>, "")

CallEvalTriggerCriteria ==
    /\ fpc = "condition"
    /\ ret' = [trigger |-> eval_trigger_criteria(
                               ConditionRequirement("REQ_TRIGGER_CRITERIA", "MANDATORY"),
                               args.patient, ConditionContract)]
    /\ fpc' = "trigger"
    /\ UNCHANGED <<args, event_vars, protocol_vars, batch_vars>>

CallEvalRequiredDataElements ==
    /\ fpc = "trigger"
    /\ ret' = [trigger |-> ret.trigger,
               data |-> eval_required_data_elements(
                            ConditionRequirement("REQ_REQUIRED_DATA_ELEMENTS", "MANDATORY"),
                            args.patient, ConditionContract)]
    /\ fpc' = "data"
    /\ UNCHANGED <<args, event_vars, protocol_vars, batch_vars>>

CallEvalTimingCritical ==
    /\ fpc = "data"
    /\ ret' = [trigger |-> ret.trigger,
               data |-> ret.data,
               timing |-> eval_timing_critical(
                              ConditionRequirement("REQ_TIMING_CRITICAL", "CONDITIONAL"),
                              args.patient, ConditionContract)]
    /\ fpc' = "timing"
    /\ UNCHANGED <<args, event_vars, protocol_vars, batch_vars>>

CallEvaluateTemporalCondition ==
    /\ fpc = "timing"
    /\ ret' = [trigger |-> ret.trigger,
               data |-> ret.data,
               timing |-> ret.timing,
               temporal |-> _evaluate_temporal_condition(
                                args.patient, _parse_temporal_condition(TemporalCondition),
                                args.acceptable_evidence, args.max_items)]
    /\ fpc' = "temporal"
    /\ UNCHANGED <<args, event_vars, protocol_vars, batch_vars>>

NextCondition ==
    \/ CallEvalTriggerCriteria
    \/ CallEvalRequiredDataElements
    \/ CallEvalTimingCritical
    \/ CallEvaluateTemporalCondition

SpecCondition == InitCondition /\ [][NextCondition]_vars

----------------------------------------------------------------------------
(* Properties of the condition evaluators *)

\* the occurrences of the key's pattern in the record: <<block, occurrence>>
KeyOccurrences ==
    {bo \in UNION {{<<b, o>> : o \in 1..Len(args.patient.evidence[b].text.occ)} :
                      b \in 1..Len(args.patient.evidence)} :
        args.patient.evidence[bo[1]].text.occ[bo[2]].re \in KeyRegexes}

\* the record holds one occurrence of the pattern, in a block that the
\* source and admission-window filters let through
OnlyOccurrence(bo) ==
    /\ KeyOccurrences = {bo}
    /\ PassesBlockFilters(args.patient, args.patient.evidence[bo[1]],
                          args.acceptable_evidence, DefaultWindowHours)

OccurrenceAt(bo) == args.patient.evidence[bo[1]].text.occ[bo[2]]

AllThreeEvaluated == fpc \in {"timing", "temporal"}

\* C19: for a condition that is a pattern key, a block whose only
\* occurrence of the pattern is negated and not historical satisfies the
\* condition in eval_required_data_elements and in neither
\* eval_trigger_criteria nor eval_timing_critical; a block whose only
\* occurrence is historical satisfies it in none of the three.
C19_NegationByEvaluator ==
    AllThreeEvaluated =>
        \A bo \in KeyOccurrences :
            OnlyOccurrence(bo) =>
                /\ (OccurrenceAt(bo).negated /\ ~ OccurrenceAt(bo).historical)
                       => /\ ret.data.passed
                          /\ ~ ret.trigger.passed
                          /\ ~ ret.timing.passed
                /\ OccurrenceAt(bo).historical
                       => /\ ~ ret.data.passed
                          /\ ~ ret.trigger.passed
                          /\ ~ ret.timing.passed

\* the same, for occurrences of the first regex of the key
NegationByEvaluatorFirstRegex ==
    AllThreeEvaluated =>
        \A bo \in KeyOccurrences :
            (/\ OnlyOccurrence(bo)
             /\ OccurrenceAt(bo).re = args.patient.facts.action_patterns[args.pattern_key][1]) =>
                /\ (OccurrenceAt(bo).negated /\ ~ OccurrenceAt(bo).historical)
                       => /\ ret.data.passed
                          /\ ~ ret.trigger.passed
                          /\ ~ ret.timing.passed
                /\ OccurrenceAt(bo).historical
                       => /\ ~ ret.data.passed
                          /\ ~ ret.trigger.passed
                          /\ ~ ret.timing.passed

\* the block matches the key: a source the condition accepts and an
\* occurrence of the pattern that is neither negated nor historical
MatchesKey(e) ==
    /\ \/ args.acceptable_evidence = <<>>
       \/ \E k \in 1..Len(args.acceptable_evidence) :
              args.acceptable_evidence[k] = e.source_type
    /\ \E o \in 1..Len(e.text.occ) :
           /\ e.text.occ[o].re \in KeyRegexes
           /\ ~ e.text.occ[o].negated
           /\ ~ e.text.occ[o].historical

\* N units, in minutes
WindowMinutes ==
    IF args.within[2] = "hours" THEN Float(args.within[1]) * MinutesPerHour
    ELSE Float(args.within[1])

\* arrival <= t <= arrival + N units, both timestamps parseable
InsideWindow(e) ==
    /\ parse_datetime(args.patient.facts.arrival_time).ok
    /\ parse_datetime(e.timestamp).ok
    /\ args.patient.facts.arrival_time.t <= e.timestamp.t
    /\ e.timestamp.t <= args.patient.facts.arrival_time.t + WindowMinutes

\* C20: temporal:within:N:unit:key passes exactly when some block that
\* matches the key has a parseable timestamp t with
\* arrival <= t <= arrival + N units, whatever other matching blocks lie
\* outside the window and wherever they stand in the record.
C20_TemporalWindow ==
    fpc = "temporal" =>
        (ret.temporal.passed <=>
            \E n \in 1..Len(args.patient.evidence) :
                /\ MatchesKey(args.patient.evidence[n])
                /\ InsideWindow(args.patient.evidence[n]))

\* the same, when the record holds no more matching blocks than the cap
TemporalWindowUnderCap ==
    (/\ fpc = "temporal"
     /\ Cardinality({n \in 1..Len(args.patient.evidence) :
                        MatchesKey(args.patient.evidence[n])}) <= args.max_items) =>
        (ret.temporal.passed <=>
            \E n \in 1..Len(args.patient.evidence) :
                /\ MatchesKey(args.patient.evidence[n])
                /\ InsideWindow(args.patient.evidence[n]))

\* a condition that passed has a block inside the window
TemporalPassedHasBlockInside ==
    (fpc = "temporal" /\ ret.temporal.passed) =>
        \E n \in 1..Len(args.patient.evidence) :
            /\ MatchesKey(args.patient.evidence[n])
            /\ InsideWindow(args.patient.evidence[n])

----------------------------------------------------------------------------
(* One requirement under each evaluator: a list of one or two condition
   strings of any kind, evaluated by eval_trigger_criteria, then
   eval_required_data_elements, then eval_timing_critical *)

RequirementEvidenceMenu ==
    << Evidence("TRAUMA_HP", IsoTs(ArrivalMinute + MinutesPerHour),
                Text(<<Plain("re_tbi")>>, <<Mention("age", 45)>>, {})),
       Evidence("ED_NOTE", NoTs,
                Text(<<>>, <<Mention("age", 12)>>, {"blunt mechanism"})),
       Evidence("ED_NOTE", IsoTs(ArrivalMinute + 30),
                Text(<<Plain("re_ct_head")>>, <<>>, {})),
       Evidence("IMAGING", IsoTs(DayAfter + 1),
                Text(<<Plain("re_ct_head")>>, <<>>, {"blunt mechanism"})),
       Evidence("IMAGING", NoTs, Text(<<>>, <<Mention("age", 70)>>, {})),
       Evidence("PHYSICIAN_NOTE", NoTs, Text(<<>>, <<>>, {})) >>

RequirementPatients ==
    {ProtocolFacts(a, ev) : a \in {NoTs, BadTs, IsoTs(ArrivalMinute)},
                            ev \in Excerpts(RequirementEvidenceMenu, MaxEvidence)}

\* "age:<:16", "age:>=:65", "temporal:within:24:hours:ct_head", two pattern
\* keys and two descriptive conditions
ConditionMenu ==
    { Condition(<<"age", "<", "16">>, ""),
      Condition(<<"age", ">=", "65">>, ""),
      Condition(<<"temporal", "within", "24", "hours", "ct_head">>, ""),
      Key("tbi"),
      Key("ct_head"),
      Key("blunt mechanism"),
      Key("penetrating mechanism") }

ConditionLists ==
    {<<a>> : a \in ConditionMenu} \cup {<<a, b>> : a \in ConditionMenu, b \in ConditionMenu}

RequirementArguments ==
    [patient : RequirementPatients,
     trigger_conditions : ConditionLists,
     acceptable_evidence : {<<>>, <<"ED_NOTE", "IMAGING">>},
     max_items : 1..MaxEvidence]

InitRequirement ==
    /\ args \in RequirementArguments
    /\ ret = <<>>
    /\ fpc = "requirement"
    /\ IdleEvent
    /\ IdleProtocol
    /\ IdleBatch

RequirementContract == [evidence |-> [max_items_per_requirement |-> args.max_items]]

RequirementUnderTest(id, requirement_type) ==
    Requirement(id, requirement_type, args.trigger_conditions,
                args.acceptable_evidence, <<>>)

EvaluateTriggerRequirement ==
    /\ fpc = "requirement"
    /\ ret' = [trigger |-> eval_trigger_criteria(
                               RequirementUnderTest("REQ_TRIGGER_CRITERIA", "MANDATORY"),
                               args.patient, RequirementContract)]
    /\ fpc' = "req_trigger"
    /\ UNCHANGED <<args, event_vars, protocol_vars, batch_vars>>

EvaluateDataRequirement ==
    /\ fpc = "req_trigger"
    /\ ret' = [trigger |-> ret.trigger,
               data |-> eval_required_data_elements(
                            RequirementUnderTest("REQ_REQUIRED_DATA_ELEMENTS", "MANDATORY"),
                            args.patient, RequirementContract)]
    /\ fpc' = "req_data"
    /\ UNCHANGED <<args, event_vars, protocol_vars, batch_vars>>

EvaluateTimingRequirement ==
    /\ fpc = "req_data"
    /\ ret' = [trigger |-> ret.trigger,
               data |-> ret.data,
               timing |-> eval_timing_critical(
                              RequirementUnderTest("REQ_TIMING_CRITICAL", "CONDITIONAL"),
                              args.patient, RequirementContract)]
    /\ fpc' = "req_timing"
    /\ UNCHANGED <<args, event_vars, protocol_vars, batch_vars>>

NextRequirement ==
    \/ EvaluateTriggerRequirement
    \/ EvaluateDataRequirement
    \/ EvaluateTimingRequirement

SpecRequirement == InitRequirement /\ [][NextRequirement]_vars

----------------------------------------------------------------------------
(* Properties of the requirement evaluators *)

TriggerEvaluated == fpc \in {"req_trigger", "req_data", "req_timing"}

\* the blocks a requirement may draw on
AcceptableBlock(e) ==
    \/ args.acceptable_evidence = <<>>
    \/ \E k \in 1..Len(args.acceptable_evidence) : args.acceptable_evidence[k] = e.source_type

\* a value of the condition's parameter was extracted from some block
ValueExtracted(cond) ==
    \E n \in 1..Len(args.patient.evidence) :
        /\ AcceptableBlock(args.patient.evidence[n])
        /\ _extract_numeric_value(args.patient.evidence[n].text, cond.parts[1]) >= 0

\* the value extracted from the block satisfies the condition's operator
ValueSatisfies(e, cond) ==
    /\ AcceptableBlock(e)
    /\ _extract_numeric_value(e.text, cond.parts[1]) >= 0
    /\ _compare_numeric(_extract_numeric_value(e.text, cond.parts[1]),
                        cond.parts[2], Float(cond.parts[3]))

SomeValueSatisfies(cond) ==
    \E n \in 1..Len(args.patient.evidence) : ValueSatisfies(args.patient.evidence[n], cond)

\* the trigger loop gets past its first condition
FirstConditionFound ==
    eval_trigger_criteria(
        Requirement("REQ_TRIGGER_CRITERIA", "MANDATORY", <<args.trigger_conditions[1]>>,
                    args.acceptable_evidence, <<>>),
        args.patient, RequirementContract).reason
    \in {"Trigger criteria satisfied", "NOT_TRIGGERED: Trigger criteria not met"}

\* condition i is a numeric threshold and the trigger loop reaches it
NumericConditionReached(i) ==
    /\ i \in 1..Len(args.trigger_conditions)
    /\ _parse_numeric_threshold(args.trigger_conditions[i]).ok
    /\ i = 2 => FirstConditionFound

InSeq(x, s) == \E k \in 1..Len(s) : s[k] = x

SingleNumeric ==
    /\ Len(args.trigger_conditions) = 1
    /\ _parse_numeric_threshold(args.trigger_conditions[1]).ok

\* the requirement has one condition, which parses as temporal:within
SingleTemporal ==
    /\ Len(args.trigger_conditions) = 1
    /\ _parse_temporal_condition(args.trigger_conditions[1]).ok

\* the time window of the condition holds for the record
WindowHolds ==
    _evaluate_temporal_condition(
        args.patient, _parse_temporal_condition(args.trigger_conditions[1]),
        args.acceptable_evidence, args.max_items).passed

\* C22: each of the three evaluators classifies a condition string in the
\* same order, numeric threshold, temporal window, pattern key, keyword:
\* a requirement of one numeric threshold passes in each exactly when an
\* extracted value satisfies the operator, and a requirement of one
\* temporal:within condition passes in each exactly when the window holds.
C22_SameClassificationOrder ==
    fpc = "req_timing" =>
        /\ SingleNumeric =>
               /\ ret.trigger.passed <=> SomeValueSatisfies(args.trigger_conditions[1])
               /\ ret.data.passed <=> SomeValueSatisfies(args.trigger_conditions[1])
               /\ ret.timing.passed <=> SomeValueSatisfies(args.trigger_conditions[1])
        /\ SingleTemporal =>
               /\ ret.trigger.passed <=> WindowHolds
               /\ ret.data.passed <=> WindowHolds
               /\ ret.timing.passed <=> WindowHolds

\* the trigger evaluator knows numeric thresholds and the timing evaluator
\* knows temporal windows
ClassifiedWhereKnown ==
    fpc = "req_timing" =>
        /\ SingleNumeric =>
               (ret.trigger.passed <=> SomeValueSatisfies(args.trigger_conditions[1]))
        /\ SingleTemporal => (ret.timing.passed <=> WindowHolds)

\* a numeric threshold never passes the data or timing evaluator and a
\* temporal window never passes the trigger or data evaluator
NeverPassesWhereUnknown ==
    fpc = "req_timing" =>
        /\ SingleNumeric => (~ ret.data.passed /\ ~ ret.timing.passed)
        /\ SingleTemporal => (~ ret.trigger.passed /\ ~ ret.data.passed)

----------------------------------------------------------------------------
(* Two evaluations on separate workers (spec section 5): ingestion/batch_eval.py
   hands every evaluation the one pattern dictionary built by _load_resources;
   the result object, the loop position and the hit lists are locals of each
   call *)

Workers == {1, 2}

\* the rulesets of one batch
WorkerEventRules == {rs.event : rs \in BatchRulesetMenu}

WorkerProtocolRules ==
    {[evaluation_mode |-> proto.evaluation_mode, requirements |-> proto.requirements] :
        proto \in BatchProtocolMenu}

\* a (ruleset, patient) pair; the record's facts refer to the shared dictionary
WorkerPairs(rulesets, arrival_time, menu) ==
    {[rules |-> rules, arrival_time |-> arrival_time, evidence |-> Located(blocks)] :
        rules \in rulesets, blocks \in Excerpts(menu, BatchEvidence)}

InitConcurrent ==
    /\ \/ /\ args \in [engine : {"event"},
                       patterns : {QueryPatterns},
                       contract : {c \in ContractMenu : "NO" \in c.allowed},
                       pairs : [Workers -> WorkerPairs(WorkerEventRules, IsoTs(10),
                                                       EventEvidenceMenu)]]
       \/ /\ args \in [engine : {"protocol"},
                       patterns : {ActionPatterns},
                       contract : {c \in ProtocolContractMenu :
                                      "max_items_per_requirement" \in DOMAIN c.evidence},
                       pairs : [Workers -> WorkerPairs(WorkerProtocolRules,
                                                       IsoTs(ArrivalMinute),
                                                       ProtocolEvidenceMenu)]]
    /\ args.pairs[1] # args.pairs[2]
    /\ ret = [w \in Workers |->
                 [pc |-> "start", i |-> 1,
                  r |-> IF args.engine = "event" THEN EventResult ELSE ProtocolResult]]
    /\ fpc = "concurrent"
    /\ IdleEvent
    /\ IdleProtocol
    /\ IdleBatch

\* the PatientFacts of worker w: facts["query_patterns"] / facts["action_patterns"]
\* is the shared dictionary itself
WorkerPatient(w) ==
    LET pair == args.pairs[w]
    IN  IF args.engine = "event"
        THEN [facts |-> [arrival_time |-> pair.arrival_time,
                         query_patterns |-> args.patterns],
              evidence |-> pair.evidence]
        ELSE [facts |-> [arrival_time |-> pair.arrival_time,
                         action_patterns |-> args.patterns],
              evidence |-> pair.evidence]

WorkerRules(w) == args.pairs[w].rules

\* worker w takes a step that leaves it at position "to" with result "res"
WorkerMoves(w, to, res, index) ==
    /\ ret' = [ret EXCEPT ![w] = [pc |-> to, i |-> index, r |-> res]]
    /\ UNCHANGED <<args, fpc, event_vars, protocol_vars, batch_vars>>

\* evaluate_event on worker w: r = EventResult(...)
WorkerBegin(w) ==
    /\ fpc = "concurrent"
    /\ args.engine = "event"
    /\ ret[w].pc = "start"
    /\ WorkerMoves(w, IF WorkerRules(w).exclusions = <<>> THEN "gates" ELSE "exclusions",
                   EventResult, 1)

\* one iteration of the exclusions loop on worker w
WorkerCheckExclusion(w) ==
    /\ fpc = "concurrent"
    /\ ret[w].pc = "exclusions"
    /\ LET rules == WorkerRules(w)
           ex == rules.exclusions[ret[w].i]
           hs == eval_exclude_if_any(ex, WorkerPatient(w), args.contract)
       IN  IF ex.gate_type = "exclude_if_any" /\ hs.present
           THEN WorkerMoves(w, "done",
                            [ret[w].r EXCEPT !.outcome = "EXCLUDED", !.hard_stop = hs],
                            ret[w].i)
           ELSE IF ret[w].i = Len(rules.exclusions)
           THEN WorkerMoves(w, "gates", ret[w].r, 1)
           ELSE WorkerMoves(w, "exclusions", ret[w].r, ret[w].i + 1)

\* defect: the gate step consumes the pattern list it used from the shared
\* dictionary
worker_gate_consuming_patterns(w) ==
    /\ fpc = "concurrent"
    /\ ret[w].pc = "gates"
    /\ ret[w].i <= Len(WorkerRules(w).gates)
    /\ LET gate == WorkerRules(w).gates[ret[w].i]
           gr == EvalGateType(gate, WorkerPatient(w), args.contract)
           traced == [ret[w].r EXCEPT !.gate_trace = Append(@, gr)]
           nxt == AfterGate(traced, gate, gr, args.contract, ret[w].i)
       IN  /\ ret' = [ret EXCEPT ![w] = [pc |-> nxt.pc, i |-> nxt.gi, r |-> nxt.r]]
           /\ args' = [args EXCEPT !.patterns =
                          [k \in DOMAIN @ |-> IF k = gate.query_key THEN <<>> ELSE @[k]]]
    /\ UNCHANGED <<fpc, event_vars, protocol_vars, batch_vars>>

\* one iteration of the gates loop on worker w
WorkerEvaluateGate(w) ==
    /\ fpc = "concurrent"
    /\ ret[w].pc = "gates"
    /\ ret[w].i <= Len(WorkerRules(w).gates)
    /\ LET gate == WorkerRules(w).gates[ret[w].i]
           gr == EvalGateType(gate, WorkerPatient(w), args.contract)
           traced == [ret[w].r EXCEPT !.gate_trace = Append(@, gr)]
           nxt == AfterGate(traced, gate, gr, args.contract, ret[w].i)
       IN  WorkerMoves(w, nxt.pc, nxt.r, nxt.gi)

\* r.outcome = Outcome.YES on worker w
WorkerReturnYes(w) ==
    /\ fpc = "concurrent"
    /\ ret[w].pc = "gates"
    /\ ret[w].i > Len(WorkerRules(w).gates)
    /\ WorkerMoves(w, "done", [ret[w].r EXCEPT !.outcome = "YES"], ret[w].i)

\* evaluate_protocol on worker w: r = ProtocolResult(...), CONTEXT_ONLY bypass
WorkerBeginProtocol(w) ==
    /\ fpc = "concurrent"
    /\ args.engine = "protocol"
    /\ ret[w].pc = "start"
    /\ IF WorkerRules(w).evaluation_mode = "CONTEXT_ONLY"
       THEN WorkerMoves(w, "done",
                        [ProtocolResult EXCEPT !.outcome = "NOT_TRIGGERED",
                                               !.warnings = <<"CONTEXT_ONLY protocol">>], 1)
       ELSE WorkerMoves(w, "requirements", ProtocolResult, 1)

\* one iteration of the requirements loop on worker w
WorkerEvaluateRequirement(w) ==
    /\ fpc = "concurrent"
    /\ ret[w].pc = "requirements"
    /\ ret[w].i <= Len(WorkerRules(w).requirements)
    /\ LET req == WorkerRules(w).requirements[ret[w].i]
           d == Dispatch(req, WorkerPatient(w), args.contract)
           traced == [ret[w].r EXCEPT !.step_trace = Append(@, d.step)]
           nxt == AfterStep(traced, req, d.step, ret[w].i)
       IN  IF d.raised THEN WorkerMoves(w, "raised", ret[w].r, ret[w].i)
           ELSE IF d.recognised THEN WorkerMoves(w, nxt.pc, nxt.r, nxt.ri)
           ELSE WorkerMoves(w, "requirements",
                            [ret[w].r EXCEPT !.warnings =
                                Append(@, "Unknown requirement type")],
                            ret[w].i + 1)

\* r.outcome = ProtocolOutcome.COMPLIANT on worker w
WorkerReturnCompliant(w) ==
    /\ fpc = "concurrent"
    /\ ret[w].pc = "requirements"
    /\ ret[w].i > Len(WorkerRules(w).requirements)
    /\ WorkerMoves(w, "done", [ret[w].r EXCEPT !.outcome = "COMPLIANT"], ret[w].i)

\* no lock, no queue: any worker with a step left may take it
NextConcurrent ==
    \E w \in Workers :
        \/ WorkerBegin(w)
        \/ WorkerCheckExclusion(w)
        \/ WorkerEvaluateGate(w)
        \/ WorkerReturnYes(w)
        \/ WorkerBeginProtocol(w)
        \/ WorkerEvaluateRequirement(w)
        \/ WorkerReturnCompliant(w)

SpecConcurrent == InitConcurrent /\ [][NextConcurrent]_vars

\* the call of worker w has returned or raised
WorkerReturned(w) == ret[w].pc \in {"done", "raised"}

\* the same call made with nothing else running
RunAlone(w) ==
    IF args.engine = "event"
    THEN evaluate_event(WorkerRules(w), args.contract, WorkerPatient(w))
    ELSE evaluate_protocol(WorkerRules(w), args.contract, WorkerPatient(w))

SameAsAlone ==
    \A w \in Workers : WorkerReturned(w) => [pc |-> ret[w].pc, r |-> ret[w].r] = RunAlone(w)

KeywordConditionReached(i) ==
    /\ i \in 1..Len(args.trigger_conditions)
    /\ ~ _parse_numeric_threshold(args.trigger_conditions[i]).ok
    /\ ~ _is_pattern_key(args.patient, args.trigger_conditions[i])
    /\ i = 2 => FirstConditionFound

\* some block of an acceptable source contains the condition text
KeywordPresent(cond) ==
    \E n \in 1..Len(args.patient.evidence) :
        /\ AcceptableBlock(args.patient.evidence[n])
        /\ Keyword(cond) \in args.patient.evidence[n].text.kw

NotTriggered(step) ==
    /\ ~ step.passed
    /\ step.reason \in {"NOT_TRIGGERED: Primary trigger criteria not met",
                        "NOT_TRIGGERED: Trigger criteria not met",
                        "NOT_TRIGGERED: does not meet threshold"}

\* C24: in eval_trigger_criteria a keyword condition (no numeric threshold,
\* no known pattern key) whose text no acceptable block contains counts as
\* not found: the step is NOT_TRIGGERED when it is the first condition and
\* lists the condition in missing_data otherwise, whatever the number of
\* evidence blocks
C24_KeywordNeedsSubstring ==
    TriggerEvaluated =>
        \A i \in 1..Len(args.trigger_conditions) :
            (KeywordConditionReached(i) /\ ~ KeywordPresent(args.trigger_conditions[i]))
                => /\ i = 1 => NotTriggered(ret.trigger)
                   /\ i = 2 => InSeq(args.trigger_conditions[i], ret.trigger.missing_data)

\* what the loop at 927-932 does: the keyword condition counts as not found
\* only when the record has no block of an acceptable source at all
KeywordNotFoundWithoutAcceptableBlock ==
    TriggerEvaluated =>
        \A i \in 1..Len(args.trigger_conditions) :
            KeywordConditionReached(i) =>
                LET cond == args.trigger_conditions[i]
                    none == \A n \in 1..Len(args.patient.evidence) :
                                ~ AcceptableBlock(args.patient.evidence[n])
                IN  /\ none => /\ ~ ret.trigger.passed
                               /\ InSeq(cond, ret.trigger.missing_data)
                    /\ ~ none => ~ InSeq(cond, ret.trigger.missing_data)

\* a step that passes with an absent keyword condition as its second condition
KeywordAbsentYetPassed ==
    /\ TriggerEvaluated
    /\ KeywordConditionReached(2)
    /\ ~ KeywordPresent(args.trigger_conditions[2])
    /\ ret.trigger.passed

TimingEvaluated == fpc = "req_timing"

\* condition i is a temporal:within condition whose window does not hold for
\* the record
TemporalConditionFails(i) ==
    /\ i \in 1..Len(args.trigger_conditions)
    /\ _parse_temporal_condition(args.trigger_conditions[i]).ok
    /\ ~ _evaluate_temporal_condition(
             args.patient, _parse_temporal_condition(args.trigger_conditions[i]),
             args.acceptable_evidence,
             max_items_per_requirement(RequirementContract)).passed

NonCompliant(step) ==
    /\ ~ step.passed
    /\ step.reason \in {"NON_COMPLIANT: Timing requirements not met",
                        "NON_COMPLIANT: Timing-critical elements not documented",
                        "NON_COMPLIANT: Timing violation detected"}

\* C25: when any temporal:within condition of a timing requirement fails, also
\* for an absent or unparseable arrival_time, eval_timing_critical returns
\* passed = false with a NON_COMPLIANT reason, even if another condition of the
\* requirement produced evidence
C25_FailedWindowFailsStep ==
    TimingEvaluated =>
        \A i \in 1..Len(args.trigger_conditions) :
            TemporalConditionFails(i) => NonCompliant(ret.timing)

\* what 1166-1181 do: timing_failures is read only under "if not hits", so
\* a failed window fails the step when no condition produced evidence
FailedWindowFailsStepWithoutHits ==
    TimingEvaluated =>
        \A i \in 1..Len(args.trigger_conditions) :
            (TemporalConditionFails(i) /\ ret.timing.evidence = <<>>)
                => /\ ~ ret.timing.passed
                   /\ ret.timing.reason = "NON_COMPLIANT: Timing requirements not met"

\* the step passes with no parseable arrival time for its temporal condition
PassedWithoutArrivalTime ==
    /\ TimingEvaluated
    /\ \E i \in 1..Len(args.trigger_conditions) : TemporalConditionFails(i)
    /\ args.patient.facts.arrival_time \in {NoTs, BadTs}
    /\ ret.timing.passed

----------------------------------------------------------------------------
(* eval_exclude_if_any on long records: ntds_logic/engine.py 116-157 *)

\* the longest run of blocks that match the query key without the context
MaxQueryOnly == 51

\* "POA: daughter (power of attorney)": the query key without its context
QueryOnlyBlock == Evidence("PHYSICIAN_NOTE", NoTs, <<Occ("re_poa")>>)

\* n such blocks and then the blocks of tail
Crowded(n, tail) == [k \in 1..n |-> QueryOnlyBlock] \o tail

ExclusionArguments ==
    [gate : {ex \in ExclusionMenu : ex.gate_type = "exclude_if_any"},
     patient : {PatientFacts(NoTs, Crowded(n, tail)) :
                   n \in 0..MaxQueryOnly, tail \in Excerpts(EventEvidenceMenu, 1)},
     contract : ContractMenu]

InitExclusion ==
    /\ args \in ExclusionArguments
    /\ ret = NoHardStop
    /\ fpc = "exclusion"
    /\ IdleEvent
    /\ IdleProtocol
    /\ IdleBatch

CallEvalExcludeIfAny ==
    /\ fpc = "exclusion"
    /\ ret' = eval_exclude_if_any(args.gate, args.patient, args.contract)
    /\ fpc' = "excluded"
    /\ UNCHANGED <<args, event_vars, protocol_vars, batch_vars>>

NextExclusion == CallEvalExcludeIfAny

SpecExclusion == InitExclusion /\ [][NextExclusion]_vars

\* the block matches one of the exclusion's query keys
MatchesQueryKey(e) ==
    \E k \in 1..Len(args.gate.query_keys) :
        line_matches_any(args.patient, e.text, args.gate.query_keys[k])

\* the text of the block matches one of the exclusion's context keys
MatchesContextKey(e) ==
    \E j \in 1..Len(args.gate.require_context_keys) :
        line_matches_any(args.patient, e.text, args.gate.require_context_keys[j])

InContextSomewhere ==
    \E n \in 1..Len(args.patient.evidence) :
        /\ MatchesQueryKey(args.patient.evidence[n])
        /\ MatchesContextKey(args.patient.evidence[n])

ContextRequired == fpc = "excluded" /\ args.gate.require_context_keys # <<>>

\* C26: with require_context_keys, eval_exclude_if_any returns a HardStop
\* exactly when some block matches a query key and its own text matches a
\* context key, every evidence item of the HardStop matches both, and this
\* is so however many blocks match the query key without the context
C26_ExcludeNeedsContext ==
    ContextRequired =>
        /\ ret.present <=> InContextSomewhere
        /\ \A k \in 1..Len(ret.evidence) :
               MatchesQueryKey(ret.evidence[k]) /\ MatchesContextKey(ret.evidence[k])

\* the number of blocks that match query key k
QueryKeyMatches(k) ==
    Cardinality({n \in 1..Len(args.patient.evidence) :
                    line_matches_any(args.patient, args.patient.evidence[n].text,
                                     args.gate.query_keys[k])})

\* what 139-155 do: the context filter sees the first 50 matches of a query
\* key only, so the equivalence holds for records with at most 50 matches
\* per key; a HardStop that is returned is always in context
ExcludeNeedsContextUnderCap ==
    ContextRequired =>
        /\ ret.present => InContextSomewhere
        /\ (\A k \in 1..Len(args.gate.query_keys) : QueryKeyMatches(k) <= ExcludeMaxHits)
               => (InContextSomewhere => ret.present)
        /\ \A k \in 1..Len(ret.evidence) :
               MatchesQueryKey(ret.evidence[k]) /\ MatchesContextKey(ret.evidence[k])

\* a block in context after 50 blocks without it: no HardStop
ContextBeyondCapMissed ==
    /\ ContextRequired
    /\ InContextSomewhere
    /\ ~ ret.present

----------------------------------------------------------------------------
(* eval_timing_after_arrival on long records: ntds_logic/engine.py 178-221 *)

\* the longest run of onset blocks that carry no timestamp
MaxUntimed == 9

\* an onset mention with no timestamp
UntimedBlock == Evidence("LAB", NoTs, <<Occ("re_dx")>>)

\* arrival is minute 10
TimingEvidenceMenu ==
    << Evidence("LAB", BadTs, <<Occ("re_dx")>>),
       Evidence("IMAGING", IsoTs(9), <<Occ("re_dx")>>),
       Evidence("IMAGING", IsoTs(10), <<Occ("re_dx")>>),
       Evidence("IMAGING", IsoTs(12), <<Occ("re_dx")>>),
       Evidence("LAB", IsoZTs(12), <<Occ("re_dx")>>),
       Evidence("PHYSICIAN_NOTE", IsoTs(12), <<Occ("re_dx")>>),
       Evidence("IMAGING", IsoTs(12), <<Occ("re_tx1")>>) >>

TimingGates ==
    {[GateNamed("onset_after_arrival") EXCEPT !.timestamp_required = required,
                                              !.allowed_sources = sources] :
        required \in BOOLEAN, sources \in {<<>>, <<"IMAGING", "LAB">>}}

TimingArguments ==
    [gate : TimingGates,
     patient : {PatientFacts(arrival, [k \in 1..n |-> UntimedBlock] \o tail) :
                   arrival \in {NoTs, BadTs, IsoTs(10), IsoZTs(10)},
                   n \in 0..MaxUntimed,
                   tail \in Excerpts(TimingEvidenceMenu, 2)},
     contract : {c \in ContractMenu : "NO" \in c.allowed}]

InitTiming ==
    /\ args \in TimingArguments
    /\ ret = GateResult("", FALSE, "", <<>>)
    /\ fpc = "timing"
    /\ IdleEvent
    /\ IdleProtocol
    /\ IdleBatch

CallEvalTimingAfterArrival ==
    /\ fpc = "timing"
    /\ ret' = eval_timing_after_arrival(args.gate, args.patient, args.contract)
    /\ fpc' = "timed"
    /\ UNCHANGED <<args, event_vars, protocol_vars, batch_vars>>

NextTiming == CallEvalTimingAfterArrival

SpecTiming == InitTiming /\ [][NextTiming]_vars

\* the block is one match_evidence can return for the gate: an allowed
\* source and a text that matches the query key
MatchesGate(e) ==
    /\ \/ args.gate.allowed_sources = <<>>
       \/ \E k \in 1..Len(args.gate.allowed_sources) :
              args.gate.allowed_sources[k] = e.source_type
    /\ line_matches_any(args.patient, e.text, args.gate.query_key)

\* both timestamps parse, are of the same timezone-awareness, and the
\* block's is strictly later
LaterThanArrival(e) ==
    LET a == parse_ts(args.patient.facts.arrival_time)
        b == parse_ts(e.timestamp)
    IN  a.ok /\ b.ok /\ a.aware = b.aware /\ b.t > a.t

OnsetAfterArrival ==
    \E n \in 1..Len(args.patient.evidence) :
        MatchesGate(args.patient.evidence[n]) /\ LaterThanArrival(args.patient.evidence[n])

\* the same call with the other value of timestamp_required
OtherTimestampRequired ==
    eval_timing_after_arrival([args.gate EXCEPT !.timestamp_required = ~ @],
                              args.patient, args.contract)

\* C27: eval_timing_after_arrival passes exactly when some block matching the
\* gate's query key has a parseable timestamp strictly later than a parseable
\* arrival time (blocks with a missing, unparseable, equal or differently
\* timezone-aware timestamp never count), and timestamp_required changes the
\* reason only
C27_PassesIffLaterBlock ==
    fpc = "timed" =>
        /\ ret.passed <=> OnsetAfterArrival
        /\ OtherTimestampRequired.passed = ret.passed
        /\ OtherTimestampRequired.evidence = ret.evidence

\* the number of blocks match_evidence can return for the gate
GateMatches ==
    Cardinality({n \in 1..Len(args.patient.evidence) : MatchesGate(args.patient.evidence[n])})

\* what 186-197 do: only the first 8 matches are compared with the arrival
\* time, so the equivalence holds for records with at most 8 matches; a pass
\* always rests on a later block, and timestamp_required never changes passed
\* or the evidence
PassesIffLaterBlockUnderCap ==
    fpc = "timed" =>
        /\ ret.passed => OnsetAfterArrival
        /\ (GateMatches <= MatchMaxHits /\ OnsetAfterArrival) => ret.passed
        /\ ret.passed => \A k \in 1..Len(ret.evidence) : LaterThanArrival(ret.evidence[k])
        /\ OtherTimestampRequired.passed = ret.passed
        /\ OtherTimestampRequired.evidence = ret.evidence
        /\ (~ ret.passed /\ ret.evidence # <<>>)
               => OtherTimestampRequired.reason # ret.reason

\* a later onset block behind 8 untimed ones: the gate fails
LaterBlockBeyondCapMissed ==
    /\ fpc = "timed"
    /\ OnsetAfterArrival
    /\ ~ ret.passed

----------------------------------------------------------------------------
(* Properties of the outcomes a gate can declare *)

EventReturned == pc = "done"

\* C28: an EventResult with outcome EXCLUDED has a HardStop attached and an
\* empty gate_trace; no gate's fail_outcome or pass_outcome yields EXCLUDED
\* without a HardStop or with gate_trace entries
C28_ExcludedOnlyByExclusion ==
    (EventReturned /\ r.outcome = "EXCLUDED")
        => r.hard_stop.present /\ r.gate_trace = <<>>

\* what 250-258 and 279-310 do: EXCLUDED reached before any gate comes from
\* the exclusions loop and carries its HardStop; EXCLUDED reached in the gate
\* loop is the resolved pass_outcome or fail_outcome of the last traced gate,
\* with a HardStop only on the pass_outcome branch
ExcludedByExclusionOrGate ==
    (EventReturned /\ r.outcome = "EXCLUDED")
        => IF r.gate_trace = <<>>
           THEN r.hard_stop.present /\ r.hard_stop.rule_id \in {"EXCL_POA", "EXCL_DX"}
           ELSE LET last == r.gate_trace[Len(r.gate_trace)]
                    gate == CHOOSE g \in GateMenu : g.gate_id = last.gate
                IN  IF last.passed
                    THEN /\ ResolveOutcome(gate.pass_outcome, contract) = "EXCLUDED"
                         /\ r.hard_stop.present
                    ELSE /\ ResolveOutcome(gate.fail_outcome, contract) = "EXCLUDED"
                         /\ ~ r.hard_stop.present

\* a failed gate with fail_outcome "excluded": EXCLUDED, no HardStop, one
\* gate_trace entry
ExcludedByFailOutcome ==
    /\ EventReturned
    /\ r.outcome = "EXCLUDED"
    /\ ~ r.hard_stop.present
    /\ r.gate_trace # <<>>

\* C29: in a ProtocolResult with outcome COMPLIANT every step_trace entry has
\* passed = true; a requirement that was evaluated and failed prevents
\* COMPLIANT whatever its requirement_type
C29_CompliantHasNoFailedStep ==
    (ProtocolReturned /\ pr.outcome = "COMPLIANT")
        => \A k \in 1..Len(pr.step_trace) : pr.step_trace[k].passed

\* every requirement of the protocol is MANDATORY or CONDITIONAL
OnlyHaltingTypes ==
    \A k \in 1..Len(protocol_rules.requirements) :
        protocol_rules.requirements[k].requirement_type \in {"MANDATORY", "CONDITIONAL"}

\* what 1277-1292 do: a failed step ends the evaluation for the two types
\* the if/elif names, so COMPLIANT has no failed step when no requirement is
\* of another type
CompliantHasNoFailedHaltingStep ==
    (ProtocolReturned /\ pr.outcome = "COMPLIANT" /\ OnlyHaltingTypes)
        => \A k \in 1..Len(pr.step_trace) : pr.step_trace[k].passed

\* COMPLIANT with a failed step of a CONTRAINDICATED requirement in the trace
CompliantDespiteFailedStep ==
    /\ ProtocolReturned
    /\ pr.outcome = "COMPLIANT"
    /\ \E k \in 1..Len(pr.step_trace) : ~ pr.step_trace[k].passed

----------------------------------------------------------------------------
(* min_count of eval_evidence_any and eval_requires_treatment_any:
   ntds_logic/engine.py 160-175, 224-239 *)

MaxMinCount == 3

CountGates ==
    {Gate("counted", gate_type, query_keys, min_count, sources, TRUE, "NO", "") :
        gate_type \in {"evidence_any", "requires_treatment_any"},
        query_keys \in {<<"dx">>, <<"dx", "tx">>, <<"empty_key", "tx", "dx">>},
        min_count \in 1..MaxMinCount,
        sources \in {<<>>, <<"IMAGING", "LAB">>}}

CountArguments ==
    [gate : CountGates,
     patient : {p \in EventPatients : p.facts.arrival_time = NoTs},
     contract : {c \in ContractMenu : "NO" \in c.allowed}]

InitCount ==
    /\ args \in CountArguments
    /\ ret = GateResult("", FALSE, "", <<>>)
    /\ fpc = "count"
    /\ IdleEvent
    /\ IdleProtocol
    /\ IdleBatch

CallEvalEvidenceAny ==
    /\ fpc = "count"
    /\ args.gate.gate_type = "evidence_any"
    /\ ret' = eval_evidence_any(args.gate, args.patient, args.contract)
    /\ fpc' = "counted"
    /\ UNCHANGED <<args, event_vars, protocol_vars, batch_vars>>

CallEvalRequiresTreatmentAny ==
    /\ fpc = "count"
    /\ args.gate.gate_type = "requires_treatment_any"
    /\ ret' = eval_requires_treatment_any(args.gate, args.patient, args.contract)
    /\ fpc' = "counted"
    /\ UNCHANGED <<args, event_vars, protocol_vars, batch_vars>>

NextCount == CallEvalEvidenceAny \/ CallEvalRequiresTreatmentAny

SpecCount == InitCount /\ [][NextCount]_vars

\* block n is of an allowed source and matches query key k of the gate
BlockMatchesKey(n, k) ==
    LET e == args.patient.evidence[n]
    IN  /\ \/ args.gate.allowed_sources = <<>>
           \/ \E j \in 1..Len(args.gate.allowed_sources) :
                  args.gate.allowed_sources[j] = e.source_type
        /\ line_matches_any(args.patient, e.text, args.gate.query_keys[k])

\* the blocks that match at least one query key, each once
MatchingBlocks ==
    {n \in 1..Len(args.patient.evidence) :
        \E k \in 1..Len(args.gate.query_keys) : BlockMatchesKey(n, k)}

\* C30: an evidence_any or requires_treatment_any gate with min_count = k
\* passes only if at least k distinct blocks each match one of its query keys;
\* a block that matches several query keys counts once
C30_MinCountDistinctBlocks ==
    (fpc = "counted" /\ ret.passed) => Cardinality(MatchingBlocks) >= args.gate.min_count

\* what 167-171 and 231-235 do: the hit lists of the query keys are
\* concatenated, so passed compares min_count with the number of
\* (query key, block) matches of the record (no key has more than 8 matches
\* in these records)
MinCountKeyBlockMatches ==
    fpc = "counted" =>
        (ret.passed <=>
            Cardinality({nk \in (1..Len(args.patient.evidence))
                                    \X (1..Len(args.gate.query_keys)) :
                            BlockMatchesKey(nk[1], nk[2])}) >= args.gate.min_count)

\* one block, two query keys matching it, min_count 2: the gate passes
OneBlockCountedTwice ==
    /\ fpc = "counted"
    /\ ret.passed
    /\ args.gate.min_count = 2
    /\ Cardinality(MatchingBlocks) = 1

====
